---- MODULE Spec2Model ----
(***************************************************************************)
(* Link resolution chain of AnimeDekhoImporter (src/importer.js):          *)
(* getEpisodeLink, _resolveSource, _isDirectVideoLink, _isTutorialLink.    *)
(*                                                                         *)
(* A JavaScript string is modelled as a sequence of lexical tokens: every  *)
(* substring the code tests for (a provider name, a deny-list entry, a     *)
(* host, a leading slash) is one token or a fixed run of tokens, so that   *)
(* String.includes is "occurs as a contiguous run", startsWith looks at    *)
(* the first token and + is \o.  null is the empty sequence: the code only *)
(* ever tests it with !x, which the empty string satisfies as well, and no *)
(* candidate URL is empty (the regexes capture one character or more).     *)
(***************************************************************************)
EXTENDS Integers, Sequences, FiniteSets, TLC

\* one call of getEpisodeLink
VARIABLES
    pc,             \* position of the getEpisodeLink call
    episodeId,      \* its argument
    inflight,       \* URL of the fetchHTML promise the call awaits, NULL if none
    outstanding,    \* fetchHTML promises the call has created and not seen settle
    fetchLog,       \* URLs handed to fetchHTML so far, in call order
    html,           \* what the outer fetchHTML produced
    serverSources,  \* candidate list built from html
    idx,            \* index in serverSources of the candidate being resolved
    fallbackInternalLink,
    embedHtml,      \* what the latest nested fetchHTML produced
    result,         \* value the call returned
    outcome         \* which statement ended the call

\* one call of _isTutorialLink and _isDirectVideoLink on its own
VARIABLES
    clsUrl,         \* the argument url
    clsTutorial,    \* << the value _isTutorialLink(url) returned >>, << >> before
    clsDirect       \* << the value _isDirectVideoLink(url) returned >>

linkVars == << pc, episodeId, inflight, outstanding, fetchLog, html,
               serverSources, idx, fallbackInternalLink, embedHtml, result,
               outcome >>

\* the season loop of exportAnime or bulkExportAnime for one series
VARIABLES
    driver,         \* which of the two functions runs, "none" if neither
    expPc,          \* position of the driver
    seasonCount,    \* details.seasons.length
    seasonIdx,      \* the season of the current iteration
    episodes,       \* the episodes of that season
    epIdx,          \* the episode of the current inner iteration
    validEpisodes,
    globalEpNumber,
    stdout,         \* the statements written to process.stdout, in order
    linkCalls       \* calls and returns of getEpisodeLink, in order

\* two getEpisodeLink calls made without waiting for one another
VARIABLES
    frames,         \* the locals of each call, by call
    served          \* what the page fetcher answers each call

\* one call of fetchHTML and the calls it makes for redirects
VARIABLES
    retries,        \* the argument retries
    calls,          \* the fetchHTML calls, the first the caller's, the others
                    \* made at line 44 for a redirect
    event           \* the callback that ran last: its kind, its call, the n
                    \* of its attemptFetch(n) and the status of its response

\* one call of getAllAnime
VARIABLES
    gaPc,           \* idle, fetch (await fetchHTML), sleep (await sleep), done
    catIdx,         \* the category of the for loop
    pageNo,         \* the local page
    seenSlugs,
    allAnime,
    fetched,        \* page fetches issued, by category
    settled         \* what the last page fetch of a category came to

\* the fuzzy title search of runAutoScrape for one item
VARIABLES
    fsPc,           \* start, search (await importer.search), done
    originalTitle,
    currentTitle,
    bestMatch,
    queries,        \* the arguments of the calls of importer.search
    answers         \* what they returned

\* one call of getEpisodes
VARIABLES
    gePc,           \* idle, fetch (await fetchHTML), done
    gePage,         \* the S<n>-E<m> markers of the page served, in order
    geEpisodes      \* the list returned

\* one call of getAnimeDetails
VARIABLES
    adPc,           \* idle, fetch (await fetchHTML), done, threw
    adPage,         \* the season numbers of the page's S<n>-E<m> markers
    adDetails       \* the object returned

\* the loop of bulkExportAnime over the anime
VARIABLES
    bkPc,           \* idle, the await the function is at, done
    toExport,       \* the number of anime to export
    animeIdx,       \* the anime of the for loop
    animeCount,
    totalEpisodes,
    bkType,         \* details.type of the anime
    bkSeasons,      \* details.seasons.length, and the season of the loop
    bkSeasonIdx,
    bkEpisodes,     \* episodes.length, and the episode of the loop
    bkEpIdx,
    bkOut,          \* the header, the anime blocks begun and the footer
                    \* written to stdout
    thrown          \* the anime whose export ended in the catch

classifyVars == << clsUrl, clsTutorial, clsDirect >>

bulkVars ==
    << bkPc, toExport, animeIdx, animeCount, totalEpisodes, bkType, bkSeasons,
       bkSeasonIdx, bkEpisodes, bkEpIdx, bkOut, thrown >>

episodesVars == << gePc, gePage, geEpisodes >>

detailsVars == << adPc, adPage, adDetails >>

searchVars ==
    << fsPc, originalTitle, currentTitle, bestMatch, queries, answers >>

allAnimeVars == << gaPc, catIdx, pageNo, seenSlugs, allAnime, fetched, settled >>

\* the operations modelled on their own besides fetchHTML
restVars ==
    << allAnimeVars, searchVars, episodesVars, detailsVars, bulkVars >>

fetchVars == << retries, calls, event >>

pairVars == << frames, served >>

exportVars == << driver, expPc, seasonCount, seasonIdx, episodes, epIdx,
                 validEpisodes, globalEpNumber, stdout, linkCalls >>

vars == << linkVars, classifyVars, exportVars, pairVars, fetchVars, restVars >>

\* what a getEpisodeLink call leaves alone
notLinkVars == << classifyVars, exportVars, pairVars, fetchVars, restVars >>

\* ------------------------------------------------------------------ bounds

\* raw regex matches on an episode page (data-src + dl2.php + iframe)
MaxMatches == 3
\* link occurrences on an embed page (iframe tags and script text)
MaxEmbedLinks == 2

\* tokens of the URL handed to a classifier called on its own
MaxUrlLen == 4
\* seasons of the exported series, and episodes getEpisodes lists for one
MaxSeasons == 2
MaxEpisodes == 2
\* the argument retries of fetchHTML, the redirects a server answers with,
\* and the HTTP requests followed in all
MaxRetries == 2
MaxRedirects == 1
MaxRequests == 5
\* entries _parseAnimeList finds on one page, and the categories of
\* getAllAnime that are followed
MaxPageLen == 2
MaxCategories == 2
\* characters of a title of the schedule
MaxTitleLen == 5
\* S<n>-E<m> markers on a series page
MaxMarkers == 3
\* anime that getAllAnime hands to bulkExportAnime
MaxAnime == 2

\* ----------------------------------------------------------------- strings

NULL == << >>

Range(s) == { s[i] : i \in 1..Len(s) }

Min(S) == CHOOSE x \in S : \A y \in S : x <= y

SeqsUpTo(S, n) == UNION { [1..k -> S] : k \in 0..n }

\* tokens whose first character is '/'
SlashInitial == { "//", "/", "/embed", "/redirect", "/epi/", "/a", "/b", "/1", "/2" }

\* tokens that contain a '/' anywhere
HasSlash(tok) == tok \in SlashInitial \cup { ".to/e/", ".com/v/" }

\* tokens whose first character is one of  " ' \ s < >
StopInitial == { "skip-ad", "sh", "\"", "'", "<", ">" }

StartsWithSlash(u) == Len(u) > 0 /\ u[1] \in SlashInitial

StartsWithSlashSlash(u) == Len(u) > 0 /\ u[1] = "//"

StartsWithHttp(u) == Len(u) > 0 /\ u[1] \in { "http:", "https:" }

\* String.prototype.includes
Includes(u, p) ==
    \E i \in 1..(Len(u) - Len(p) + 1) : SubSeq(u, i, i + Len(p) - 1) = p

\* String.prototype.toLowerCase, token by token
LowerTok(tok) ==
    CASE tok = "53ga7MRcQGg" -> "53ga7mrcqgg"
      [] tok = "JLD8SyY3o6Q" -> "jld8syy3o6q"
      [] tok = "NNrCwPAj1IY" -> "nnrcwpaj1iy"
      [] tok = "xV5Wm7qixyQ" -> "xv5wm7qixyq"
      [] tok = "KOWcj7XKnfQ" -> "kowcj7xknfq"
      [] tok = "YouTube.com" -> "youtube.com"
      [] tok = "DOOD" -> "dood"
      [] OTHER -> tok

ToLowerCase(u) == [ i \in 1..Len(u) |-> LowerTok(u[i]) ]

SITE_BASE == << "https:", "//", "animedekho.app" >>

\* ---------------------------------------------------------- classification

providers ==
    { << "as-cdn21.top" >>, << "play.zephyrflick.top" >>,
      << "vid", "stream", "ing" >>, << "dood" >>, << "stream" >>,
      << "vidmoly" >>, << "gdmirrorbot" >>, << "short.icu" >>,
      << "hubcloud" >>, << "pixeldrain" >>, << "stream", "wi", "sh" >> }

tutorialPatterns ==
    { << "youtube.com", "/embed", "/", "53ga7MRcQGg" >>,
      << "youtube.com", "/embed", "/", "JLD8SyY3o6Q" >>,
      << "youtube.com", "/embed", "/", "NNrCwPAj1IY" >>,
      << "youtube.com", "/embed", "/", "xV5Wm7qixyQ" >>,
      << "youtube.com", "/embed", "/", "KOWcj7XKnfQ" >>,
      << "1122154449" >>,
      << "youtube.com", "/embed", "/", "watch" >>,
      << "how to watch" >>,
      << "tutorial" >>,
      << "skip-ad" >> }

\* p.toLowerCase() for each entry of the two lists
providersLower == { ToLowerCase(p) : p \in providers }

tutorialPatternsLower == { ToLowerCase(p) : p \in tutorialPatterns }

IsDirectVideoLink(url) ==
    /\ url # NULL
    /\ LET lower == ToLowerCase(url)
       IN  \E p \in providersLower : Includes(lower, p)

\* variant: a YouTube embed on an allow-listed host is let through
IsTutorialLinkUnlessDirect(url) ==
    /\ url # NULL
    /\ LET lower == ToLowerCase(url)
           isTutorial == \E p \in tutorialPatternsLower : Includes(lower, p)
       IN  IF /\ ~isTutorial
              /\ \/ Includes(url, << "youtube.com", "/embed", "/" >>)
                 \/ Includes(url, << "youtu.be", "/" >>)
           THEN ~IsDirectVideoLink(url)
           ELSE isTutorial

IsTutorialLink(url) ==
    /\ url # NULL
    /\ LET lower == ToLowerCase(url)
           isTutorial == \E p \in tutorialPatternsLower : Includes(lower, p)
       IN  IF /\ ~isTutorial
              /\ \/ Includes(url, << "youtube.com", "/embed", "/" >>)
                 \/ Includes(url, << "youtu.be", "/" >>)
           THEN TRUE
           ELSE isTutorial

IsInternal(source) ==
    \/ Includes(source, << "animedekho.app", "/embed" >>)
    \/ Includes(source, << "animedekho.app", "/redirect" >>)

\* ------------------------------------------------------------------ pages

\* What fetchHTML produced for the episode page: ok = FALSE is a rejected
\* promise; otherwise the capture groups of the three regexes of
\* getEpisodeLink over the text, each list in text order.
Rejected == [ ok |-> FALSE, dataSrc |-> << >>, dl2 |-> << >>, iframes |-> << >> ]

\* What fetchHTML produced for an embed page: the link occurrences of the
\* text in text order, each inside an <iframe src="..."> (tag "iframe") or
\* anywhere else, such as a script (tag "script").
EmbedRejected == [ ok |-> FALSE, links |-> << >> ]

\* Buffer.from(x, 'base64').toString('utf8'): never throws; a payload that
\* encodes no text decodes to replacement characters.
FromBase64(payload) ==
    IF Len(payload) > 0 /\ payload[1] = "b64"
    THEN Tail(payload)
    ELSE << "<U+FFFD>" >>

\* ---------------------------------------------------------- normalisation

\* src of a raw iframe on the episode page, made absolute
AbsoluteSrc(raw) == IF StartsWithSlash(raw) THEN SITE_BASE \o raw ELSE raw

\* new URL(sourceUrl).origin, with the catch branch that falls back to
\* SITE_BASE when sourceUrl does not parse
Origin(sourceUrl) ==
    IF Len(sourceUrl) >= 3 /\ StartsWithHttp(sourceUrl) /\ sourceUrl[2] = "//"
    THEN SubSeq(sourceUrl, 1, 3)
    ELSE SITE_BASE

FullSrc(src, sourceUrl) ==
    LET fullSrc == IF StartsWithSlashSlash(src) THEN << "https:" >> \o src
                   ELSE src
    IN  IF StartsWithSlash(fullSrc) THEN Origin(sourceUrl) \o fullSrc
        ELSE fullSrc

\* the alternation of scriptRegex, in order
scriptProviders ==
    << << "as-cdn21.top" >>, << "play.zephyrflick.top" >>,
       << "vid", "stream", "ing" >>, << "dood" >>, << "stream" >>,
       << "vidmoly" >>, << "gdmirrorbot" >>, << "short.icu" >>,
       << "hubcloud" >>, << "pixeldraw" >>, << "stream", "wi", "sh" >> >>

\* scriptRegex with the provider alternative a placed at token k of text u:
\* https?:// , one or more characters without '/', the provider, then one
\* or more characters outside  " ' \ s < >
ScriptAltAt(u, k, a) ==
    LET p == scriptProviders[a]
        t == k + Len(p)
    IN  /\ Len(u) >= t
        /\ StartsWithHttp(u) /\ u[2] = "//"
        /\ k >= 4
        /\ \A j \in 3..(k - 1) : ~HasSlash(u[j])
        /\ ToLowerCase(SubSeq(u, k, t - 1)) = p
        /\ u[t] \notin StopInitial

\* The text scriptRegex matches inside one link occurrence u, NULL if none:
\* the greedy host part puts the provider as far right as it can, the
\* alternatives are tried in order, and the tail runs up to the first
\* excluded character.
ScriptMatch(u) ==
    LET ks == { k \in 1..Len(u) :
                  \E a \in 1..Len(scriptProviders) : ScriptAltAt(u, k, a) }
    IN  IF ks = {} THEN NULL
        ELSE LET k == CHOOSE x \in ks : \A y \in ks : y <= x
                 a == CHOOSE x \in 1..Len(scriptProviders) :
                          /\ ScriptAltAt(u, k, x)
                          /\ \A y \in 1..(x - 1) : ~ScriptAltAt(u, k, y)
                 t == k + Len(scriptProviders[a])
                 e == CHOOSE x \in t..Len(u) :
                          /\ \A j \in t..x : u[j] \notin StopInitial
                          /\ x = Len(u) \/ u[x + 1] \in StopInitial
             IN  SubSeq(u, 1, e)

\* -------------------------------------------------------- modelled inputs

EpisodeIds == { "naruto-1x1" }

Https == << "https:", "//" >>

\* deny-listed tutorial embed
UrlTutorial == Https \o << "youtube.com", "/embed", "/", "KOWcj7XKnfQ" >>
\* matches the deny-list and the provider list
UrlBoth == Https \o << "www.", "dood", ".to/e/", "tutorial" >>
\* the same, with the deny-listed part behind an 's'
UrlSkipAd == Https \o << "www.", "dood", ".to/e/", "skip-ad" >>
UrlDirectB == Https \o << "www.", "dood", ".to/e/", "b" >>
UrlDirectC == Https \o << "my.", "stream", "wi", "sh", ".com/v/", "c" >>
\* protocol-relative and path-relative iframe sources
UrlDirectRel == << "//", "www.", "dood", ".to/e/", "d" >>
UrlEmbedRel == << "/embed", "/1" >>
UrlGenericA == Https \o << "vimeo.com", "/a" >>
UrlGenericB == Https \o << "vimeo.com", "/b" >>
\* named in scriptRegex, absent from the provider list
UrlPixeldraw == Https \o << "cdn.", "pixeldraw", ".com/v/", "e" >>
UrlEmbed1 == SITE_BASE \o << "/embed", "/1" >>
UrlRedirect2 == SITE_BASE \o << "/redirect", "/2" >>

\* base64 text of a URL, and a payload that is no base64 of any text
Base64(u) == << "b64" >> \o u
Malformed == << "AAAA" >>

DataSrcPayloads == { Base64(UrlEmbed1), Malformed }
Dl2Payloads == { Base64(UrlRedirect2), Base64(UrlDirectC) }
RawIframeSrcs ==
    { UrlTutorial, UrlBoth, UrlDirectB, UrlGenericA, UrlGenericB, UrlEmbedRel }

\* episode pages with at most MaxMatches regex matches in all
EpisodePages ==
    UNION { { [ ok |-> TRUE, dataSrc |-> d, dl2 |-> l, iframes |-> f ] :
                d \in [ 1..n[1] -> DataSrcPayloads ],
                l \in [ 1..n[2] -> Dl2Payloads ],
                f \in [ 1..n[3] -> RawIframeSrcs ] } :
            n \in { t \in (0..MaxMatches) \X (0..MaxMatches) \X (0..MaxMatches) :
                      t[1] + t[2] + t[3] <= MaxMatches } }

EmbedLinks ==
    { [ tag |-> "iframe", url |-> u ] :
        u \in { UrlTutorial, UrlSkipAd, UrlDirectRel, UrlRedirect2 } }
    \cup
    { [ tag |-> "script", url |-> u ] : u \in { UrlPixeldraw } }

EmbedPages ==
    { [ ok |-> TRUE, links |-> l ] : l \in SeqsUpTo(EmbedLinks, MaxEmbedLinks) }

\* ------------------------------------------------------------ tabulation

\* The strings the calls below can hand to the two classifiers, and the
\* classifiers' answers on them, evaluated once; any other string is
\* classified directly.
KnownCandidates ==
    { FromBase64(p) : p \in DataSrcPayloads \cup Dl2Payloads }
    \cup { AbsoluteSrc(raw) : raw \in RawIframeSrcs }

KnownStrings ==
    KnownCandidates
    \cup { FullSrc(l.url, s) : l \in EmbedLinks, s \in KnownCandidates }
    \cup { ScriptMatch(l.url) : l \in EmbedLinks }

knownTutorialLinks == { u \in KnownStrings : IsTutorialLink(u) }

knownDirectVideoLinks == { u \in KnownStrings : IsDirectVideoLink(u) }

\* scriptRegex on each modelled link occurrence, evaluated once
knownScriptMatch == [ u \in { l.url : l \in EmbedLinks } |-> ScriptMatch(u) ]

ScriptMatchOf(u) ==
    IF u \in DOMAIN knownScriptMatch THEN knownScriptMatch[u]
    ELSE ScriptMatch(u)

\* this._isTutorialLink(url)
TutorialLink(url) ==
    IF url \in KnownStrings THEN url \in knownTutorialLinks
    ELSE IsTutorialLink(url)

\* this._isDirectVideoLink(url)
DirectVideoLink(url) ==
    IF url \in KnownStrings THEN url \in knownDirectVideoLinks
    ELSE IsDirectVideoLink(url)

\* ------------------------------------------------------------- extraction

\* variant: decoded payloads are kept without the startsWith('http') test
RECURSIVE AddDecodedUnchecked(_, _)
AddDecodedUnchecked(sources, matches) ==
    IF matches = << >> THEN sources
    ELSE LET decoded == FromBase64(Head(matches))
         IN  AddDecodedUnchecked(
                 IF decoded \notin Range(sources)
                 THEN Append(sources, decoded)
                 ELSE sources,
                 Tail(matches))

\* variant: the first payload that decodes to no URL ends the loop
RECURSIVE AddDecodedAbortOnMalformed(_, _)
AddDecodedAbortOnMalformed(sources, matches) ==
    IF matches = << >> THEN sources
    ELSE LET decoded == FromBase64(Head(matches))
         IN  IF ~StartsWithHttp(decoded) THEN sources
             ELSE AddDecodedAbortOnMalformed(
                      IF decoded \notin Range(sources)
                      THEN Append(sources, decoded)
                      ELSE sources,
                      Tail(matches))

RECURSIVE AddDecoded(_, _)
AddDecoded(sources, matches) ==
    IF matches = << >> THEN sources
    ELSE LET decoded == FromBase64(Head(matches))
         IN  AddDecoded(
                 IF StartsWithHttp(decoded) /\ decoded \notin Range(sources)
                 THEN Append(sources, decoded)
                 ELSE sources,
                 Tail(matches))

\* variant: the iframe loop without its includes test
RECURSIVE AddIframesNoDedup(_, _)
AddIframesNoDedup(sources, matches) ==
    IF matches = << >> THEN sources
    ELSE AddIframesNoDedup(Append(sources, AbsoluteSrc(Head(matches))),
                           Tail(matches))

RECURSIVE AddIframes(_, _)
AddIframes(sources, matches) ==
    IF matches = << >> THEN sources
    ELSE LET src == AbsoluteSrc(Head(matches))
         IN  AddIframes(
                 IF src \notin Range(sources) THEN Append(sources, src)
                 ELSE sources,
                 Tail(matches))

\* variant: the raw iframes are collected before the encoded candidates
ExtractServerSourcesIframesFirst(page) ==
    AddDecoded(AddDecoded(AddIframes(<< >>, page.iframes), page.dataSrc),
               page.dl2)

ExtractServerSources(page) ==
    AddIframes(AddDecoded(AddDecoded(<< >>, page.dataSrc), page.dl2),
               page.iframes)

\* --------------------------------------------------------- _resolveSource

\* variant: the iframe loop without its placeholder test
RECURSIVE IframeLoopUnfiltered(_, _)
IframeLoopUnfiltered(allIframes, sourceUrl) ==
    IF allIframes = << >> THEN NULL
    ELSE LET fullSrc == FullSrc(Head(allIframes), sourceUrl)
         IN  IF DirectVideoLink(fullSrc) THEN fullSrc
             ELSE IframeLoopUnfiltered(Tail(allIframes), sourceUrl)

RECURSIVE IframeLoop(_, _)
IframeLoop(allIframes, sourceUrl) ==
    IF allIframes = << >> THEN NULL
    ELSE LET fullSrc == FullSrc(Head(allIframes), sourceUrl)
         IN  IF TutorialLink(fullSrc)
             THEN IframeLoop(Tail(allIframes), sourceUrl)
             ELSE IF DirectVideoLink(fullSrc) THEN fullSrc
             ELSE IframeLoop(Tail(allIframes), sourceUrl)

\* embedHtml.match(scriptRegex): the matches over the whole text, which
\* holds the iframe tags too; an empty list stands for the null of no match
RECURSIVE ScriptMatches(_)
ScriptMatches(links) ==
    IF links = << >> THEN << >>
    ELSE LET m == ScriptMatchOf(Head(links).url)
         IN  (IF m = NULL THEN << >> ELSE << m >>) \o ScriptMatches(Tail(links))

RECURSIVE ScriptLoop(_)
ScriptLoop(scriptMatches) ==
    IF scriptMatches = << >> THEN NULL
    ELSE IF ~TutorialLink(Head(scriptMatches)) THEN Head(scriptMatches)
    ELSE ScriptLoop(Tail(scriptMatches))

IframeSrcs(links) ==
    LET iframes == SelectSeq(links, LAMBDA l : l.tag = "iframe")
    IN  [ i \in 1..Len(iframes) |-> iframes[i].url ]

\* _resolveSource(sourceUrl) once its fetchHTML has settled with embed
ResolveSource(sourceUrl, embed) ==
    IF ~embed.ok THEN NULL
    ELSE LET found == IframeLoop(IframeSrcs(embed.links), sourceUrl)
         IN  IF found # NULL THEN found
             ELSE ScriptLoop(ScriptMatches(embed.links))

\* --------------------------------------------------------- getEpisodeLink

WatchUrl(id) == SITE_BASE \o << "/epi/", id, "/" >>

Returned(i, fallback, value, statement) ==
    [ pc |-> "done", idx |-> i, fallback |-> fallback, result |-> value,
      outcome |-> statement ]

Suspended(i, fallback) ==
    [ pc |-> "awaitNested", idx |-> i, fallback |-> fallback, result |-> NULL,
      outcome |-> "pending" ]

\* variant: every non-direct external candidate overwrites the fallback
RECURSIVE ResolveLoopLastWins(_, _, _)
ResolveLoopLastWins(sources, i, fallback) ==
    IF i > Len(sources) THEN Returned(i, fallback, fallback, "fallback")
    ELSE LET source == sources[i]
         IN  IF TutorialLink(source)
             THEN ResolveLoopLastWins(sources, i + 1, fallback)
             ELSE IF DirectVideoLink(source)
             THEN Returned(i, fallback, source, "direct")
             ELSE IF IsInternal(source) THEN Suspended(i, fallback)
             ELSE ResolveLoopLastWins(sources, i + 1, source)

\* variant: a direct candidate is only recorded as the fallback
RECURSIVE ResolveLoopNoEarlyReturn(_, _, _)
ResolveLoopNoEarlyReturn(sources, i, fallback) ==
    IF i > Len(sources) THEN Returned(i, fallback, fallback, "fallback")
    ELSE LET source == sources[i]
         IN  IF TutorialLink(source)
             THEN ResolveLoopNoEarlyReturn(sources, i + 1, fallback)
             ELSE IF IsInternal(source) /\ ~DirectVideoLink(source)
             THEN Suspended(i, fallback)
             ELSE ResolveLoopNoEarlyReturn(sources, i + 1,
                      IF fallback = NULL THEN source ELSE fallback)

\* variant: the direct test comes before the placeholder test
RECURSIVE ResolveLoopDirectFirst(_, _, _)
ResolveLoopDirectFirst(sources, i, fallback) ==
    IF i > Len(sources) THEN Returned(i, fallback, fallback, "fallback")
    ELSE LET source == sources[i]
         IN  IF DirectVideoLink(source)
             THEN Returned(i, fallback, source, "direct")
             ELSE IF TutorialLink(source)
             THEN ResolveLoopDirectFirst(sources, i + 1, fallback)
             ELSE IF IsInternal(source) THEN Suspended(i, fallback)
             ELSE ResolveLoopDirectFirst(sources, i + 1,
                      IF fallback = NULL THEN source ELSE fallback)

\* variant: the loop stops at the first external candidate it would record
RECURSIVE ResolveLoopReturnsFirstFallback(_, _, _)
ResolveLoopReturnsFirstFallback(sources, i, fallback) ==
    IF i > Len(sources) THEN Returned(i, fallback, fallback, "fallback")
    ELSE LET source == sources[i]
         IN  IF TutorialLink(source)
             THEN ResolveLoopReturnsFirstFallback(sources, i + 1, fallback)
             ELSE IF DirectVideoLink(source)
             THEN Returned(i, fallback, source, "direct")
             ELSE IF IsInternal(source) THEN Suspended(i, fallback)
             ELSE IF fallback = NULL
             THEN Returned(i, source, source, "fallback")
             ELSE ResolveLoopReturnsFirstFallback(sources, i + 1, fallback)

\* The for loop of getEpisodeLink from candidate i on, with fallback as
\* the fallback recorded so far, run up to its next suspension point:
\* a return statement, or the await of _resolveSource for candidate i.
RECURSIVE ResolveLoop(_, _, _)
ResolveLoop(sources, i, fallback) ==
    IF i > Len(sources) THEN Returned(i, fallback, fallback, "fallback")
    ELSE LET source == sources[i]
         IN  IF TutorialLink(source)
             THEN ResolveLoop(sources, i + 1, fallback)
             ELSE IF DirectVideoLink(source)
             THEN Returned(i, fallback, source, "direct")
             ELSE IF IsInternal(source) THEN Suspended(i, fallback)
             ELSE IF ~TutorialLink(source)
             THEN ResolveLoop(sources, i + 1,
                              IF fallback = NULL THEN source ELSE fallback)
             ELSE ResolveLoop(sources, i + 1, fallback)

\* variant: a fallback recorded earlier wins over a resolved direct link
AfterResolveFallbackFirst(sources, i, fallback, resolved) ==
    IF resolved # NULL /\ DirectVideoLink(resolved) /\ fallback = NULL
    THEN Returned(i, fallback, resolved, "resolved")
    ELSE ResolveLoop(sources, i + 1,
                     IF /\ resolved # NULL
                        /\ fallback = NULL
                        /\ ~TutorialLink(resolved)
                     THEN resolved
                     ELSE fallback)

\* The loop body after  resolved = await this._resolveSource(source)  for
\* candidate i, and then the rest of the loop.
AfterResolve(sources, i, fallback, resolved) ==
    IF resolved # NULL /\ DirectVideoLink(resolved)
    THEN Returned(i, fallback, resolved, "resolved")
    ELSE ResolveLoop(sources, i + 1,
                     IF /\ resolved # NULL
                        /\ fallback = NULL
                        /\ ~TutorialLink(resolved)
                     THEN resolved
                     ELSE fallback)

\* ---------------------------------------------------------------- actions

LinkInit ==
    /\ pc = "idle"
    /\ episodeId = ""
    /\ inflight = NULL
    /\ outstanding = 0
    /\ fetchLog = << >>
    /\ html = Rejected
    /\ serverSources = << >>
    /\ idx = 0
    /\ fallbackInternalLink = NULL
    /\ embedHtml = EmbedRejected
    /\ result = NULL
    /\ outcome = "pending"

\* no classifier call of its own is under way
ClassifyIdle ==
    /\ clsUrl = NULL
    /\ clsTutorial = << >>
    /\ clsDirect = << >>

\* neither export function is running
ExportIdle ==
    /\ driver = "none"
    /\ expPc = "idle"
    /\ seasonCount = 0
    /\ seasonIdx = 0
    /\ episodes = << >>
    /\ epIdx = 0
    /\ validEpisodes = << >>
    /\ globalEpNumber = 1
    /\ stdout = << >>
    /\ linkCalls = << >>

\* no pair of calls is under way
PairIdle ==
    /\ frames = << >>
    /\ served = << >>

\* fetchHTML on its own is not under way
FetchIdle ==
    /\ retries = 0
    /\ calls = << >>
    /\ event = [ kind |-> "none", c |-> 0, n |-> 0, status |-> 0 ]

\* getAllAnime is not under way
AllAnimeIdle ==
    /\ gaPc = "idle"
    /\ catIdx = 0
    /\ pageNo = 0
    /\ seenSlugs = { }
    /\ allAnime = << >>
    /\ fetched = << >>
    /\ settled = [ cat |-> 0, kind |-> "none" ]

\* no title is being searched
SearchIdle ==
    /\ fsPc = "idle"
    /\ originalTitle = << >>
    /\ currentTitle = << >>
    /\ bestMatch = "null"
    /\ queries = << >>
    /\ answers = << >>

\* getEpisodes is not under way
EpisodesIdle ==
    /\ gePc = "idle"
    /\ gePage = << >>
    /\ geEpisodes = << >>

\* getAnimeDetails is not under way
DetailsIdle ==
    /\ adPc = "idle"
    /\ adPage = << >>
    /\ adDetails = [ seasons |-> << >>, totalSeasons |-> 0 ]

\* bulkExportAnime's loop is not under way
BulkIdle ==
    /\ bkPc = "idle"
    /\ toExport = 0
    /\ animeIdx = 0
    /\ animeCount = 0
    /\ totalEpisodes = 0
    /\ bkType = "none"
    /\ bkSeasons = 0
    /\ bkSeasonIdx = 0
    /\ bkEpisodes = 0
    /\ bkEpIdx = 0
    /\ bkOut = << >>
    /\ thrown = { }

RestIdle ==
    AllAnimeIdle /\ SearchIdle /\ EpisodesIdle /\ DetailsIdle /\ BulkIdle

Init ==
    LinkInit /\ ClassifyIdle /\ ExportIdle /\ PairIdle /\ FetchIdle /\ RestIdle

\* getEpisodeLink(id) up to  await fetchHTML(watchUrl), as its caller
\* sees it
CallFrame(id) ==
    /\ pc = "idle"
    /\ pc' = "awaitOuter"
    /\ episodeId' = id
    /\ inflight' = WatchUrl(id)
    /\ outstanding' = outstanding + 1
    /\ fetchLog' = << WatchUrl(id) >>
    /\ UNCHANGED << html, serverSources, idx, fallbackInternalLink, embedHtml,
                    result, outcome >>

\* a call of getEpisodeLink on its own
Call(id) ==
    /\ CallFrame(id)
    /\ UNCHANGED notLinkVars

\* variant: the embed pages of all candidates still to come are requested
\* at once
AdvanceFanOut(sources, r) ==
    /\ pc' = r.pc
    /\ idx' = r.idx
    /\ fallbackInternalLink' = r.fallback
    /\ result' = r.result
    /\ outcome' = r.outcome
    /\ inflight' = IF r.pc = "awaitNested" THEN sources[r.idx] ELSE NULL
    /\ \E ahead \in { IF r.pc = "awaitNested"
                       THEN SelectSeq(SubSeq(sources, r.idx, Len(sources)),
                                      IsInternal)
                       ELSE << >> } :
           /\ outstanding' = outstanding - 1 + Len(ahead)
           /\ fetchLog' = fetchLog \o ahead

\* variant: on a return the embed page of the next candidate is already
\* asked for
AdvancePrefetching(sources, r) ==
    /\ pc' = r.pc
    /\ idx' = r.idx
    /\ fallbackInternalLink' = r.fallback
    /\ result' = r.result
    /\ outcome' = r.outcome
    /\ inflight' = IF r.pc = "awaitNested" THEN sources[r.idx] ELSE NULL
    /\ \E ahead \in { IF r.pc = "awaitNested" THEN << sources[r.idx] >>
                       ELSE IF r.idx < Len(sources)
                               /\ IsInternal(sources[r.idx + 1])
                       THEN << sources[r.idx + 1] >>
                       ELSE << >> } :
           /\ outstanding' = outstanding - 1 + Len(ahead)
           /\ fetchLog' = fetchLog \o ahead

\* the fetch awaited has settled and the loop has reached position r: a
\* return, or the fetchHTML of _resolveSource for serverSources[r.idx]
Advance(sources, r) ==
    /\ pc' = r.pc
    /\ idx' = r.idx
    /\ fallbackInternalLink' = r.fallback
    /\ result' = r.result
    /\ outcome' = r.outcome
    /\ inflight' = IF r.pc = "awaitNested" THEN sources[r.idx] ELSE NULL
    /\ outstanding' = IF r.pc = "awaitNested" THEN outstanding - 1 + 1
                      ELSE outstanding - 1
    /\ fetchLog' = IF r.pc = "awaitNested"
                   THEN Append(fetchLog, sources[r.idx])
                   ELSE fetchLog

\* variant: no try/catch around the body of getEpisodeLink
OuterFetchRejectedUncaught ==
    /\ pc = "awaitOuter"
    /\ html' = Rejected
    /\ pc' = "done"
    /\ result' = NULL
    /\ outcome' = "threw"
    /\ inflight' = NULL
    /\ outstanding' = outstanding - 1
    /\ UNCHANGED << episodeId, fetchLog, serverSources, idx,
                    fallbackInternalLink, embedHtml >>
    /\ UNCHANGED notLinkVars

\* variant: the catch hands back the episode page itself as the link
OuterFetchRejectedReturnsPage ==
    /\ pc = "awaitOuter"
    /\ html' = Rejected
    /\ pc' = "done"
    /\ result' = inflight
    /\ outcome' = "catch"
    /\ inflight' = NULL
    /\ outstanding' = outstanding - 1
    /\ UNCHANGED << episodeId, fetchLog, serverSources, idx,
                    fallbackInternalLink, embedHtml >>
    /\ UNCHANGED notLinkVars

\* fetchHTML(watchUrl) rejects: the catch of getEpisodeLink returns null
OuterFetchRejected ==
    /\ pc = "awaitOuter"
    /\ html' = Rejected
    /\ pc' = "done"
    /\ result' = NULL
    /\ outcome' = "catch"
    /\ inflight' = NULL
    /\ outstanding' = outstanding - 1
    /\ UNCHANGED << episodeId, fetchLog, serverSources, idx,
                    fallbackInternalLink, embedHtml >>
    /\ UNCHANGED notLinkVars

\* fetchHTML(watchUrl) resolves: extraction, then the loop up to its
\* first suspension point
OuterFetchResolvedWith(pages) ==
    /\ pc = "awaitOuter"
    /\ \E page \in pages :
           /\ html' = page
           /\ \E sources \in { ExtractServerSources(page) } :
                  /\ serverSources' = sources
                  /\ \E r \in { ResolveLoop(sources, 1, NULL) } :
                         Advance(sources, r)
    /\ UNCHANGED << episodeId, embedHtml >>
    /\ UNCHANGED notLinkVars

OuterFetchResolved == OuterFetchResolvedWith(EpisodePages)

\* internal-indirection iframes of an embed page that are neither
\* placeholder nor direct
NestedInternal(embed, sourceUrl) ==
    { u \in { FullSrc(src, sourceUrl) : src \in Range(IframeSrcs(embed.links)) } :
        IsInternal(u) /\ ~TutorialLink(u) /\ ~DirectVideoLink(u) }

\* variant: an internal link found on the embed page is resolved in turn
NestedFetchSettledRecursing(embed) ==
    /\ embedHtml' = embed
    /\ \E resolved \in { ResolveSource(inflight, embed) } :
           IF resolved = NULL /\ NestedInternal(embed, inflight) # {}
           THEN /\ \E u \in NestedInternal(embed, inflight) :
                       /\ inflight' = u
                       /\ fetchLog' = Append(fetchLog, u)
                /\ UNCHANGED << pc, idx, fallbackInternalLink, result, outcome,
                                outstanding >>
           ELSE \E r \in { AfterResolve(serverSources, idx,
                                        fallbackInternalLink, resolved) } :
                    Advance(serverSources, r)
    /\ UNCHANGED << episodeId, html, serverSources >>
    /\ UNCHANGED notLinkVars

\* the fetchHTML of _resolveSource settles with embed (resolved or
\* rejected): the rest of _resolveSource, then the loop goes on
NestedFetchSettled(embed) ==
    /\ embedHtml' = embed
    /\ \E resolved \in { ResolveSource(inflight, embed) } :
       \E r \in { AfterResolve(serverSources, idx, fallbackInternalLink,
                               resolved) } :
           Advance(serverSources, r)
    /\ UNCHANGED << episodeId, html, serverSources >>
    /\ UNCHANGED notLinkVars

NestedFetchResolvedWith(pages) ==
    /\ pc = "awaitNested"
    /\ \E embed \in pages : NestedFetchSettled(embed)

NestedFetchResolved == NestedFetchResolvedWith(EmbedPages)

\* variant: no try/catch in _resolveSource, the rejection reaches the
\* catch of getEpisodeLink
NestedFetchRejectedUncaught ==
    /\ pc = "awaitNested"
    /\ embedHtml' = EmbedRejected
    /\ pc' = "done"
    /\ result' = NULL
    /\ outcome' = "catch"
    /\ inflight' = NULL
    /\ outstanding' = outstanding - 1
    /\ UNCHANGED << episodeId, fetchLog, html, serverSources, idx,
                    fallbackInternalLink >>
    /\ UNCHANGED notLinkVars

NestedFetchRejected ==
    /\ pc = "awaitNested"
    /\ NestedFetchSettled(EmbedRejected)

Next ==
    \/ \E id \in EpisodeIds : Call(id)
    \/ OuterFetchRejected
    \/ OuterFetchResolved
    \/ NestedFetchResolved
    \/ NestedFetchRejected

Spec == Init /\ [][Next]_vars

\* ------------------------------------------------- the classifiers alone

\* pieces of the strings handed to the classifiers
UrlTokens ==
    { "youtube.com", "YouTube.com", "youtu.be", "/embed", "/", "KOWcj7XKnfQ",
      "dood", "tutorial", "vimeo.com" }

\* the arguments: every string of at most MaxUrlLen pieces, the empty
\* string (and null, which the classifiers treat alike) among them
ClassifierInputs == SeqsUpTo(UrlTokens, MaxUrlLen)

ClassifyInit ==
    /\ clsUrl \in ClassifierInputs
    /\ clsTutorial = << >>
    /\ clsDirect = << >>
    /\ LinkInit
    /\ ExportIdle
    /\ PairIdle
    /\ FetchIdle
    /\ RestIdle

\* this._isTutorialLink(clsUrl)
CallIsTutorialLink ==
    /\ clsTutorial = << >>
    /\ clsTutorial' = << IsTutorialLink(clsUrl) >>
    /\ UNCHANGED << clsUrl, clsDirect, linkVars, exportVars, pairVars,
                    fetchVars, restVars >>

\* this._isDirectVideoLink(clsUrl)
CallIsDirectVideoLink ==
    /\ clsDirect = << >>
    /\ clsDirect' = << IsDirectVideoLink(clsUrl) >>
    /\ UNCHANGED << clsUrl, clsTutorial, linkVars, exportVars, pairVars,
                    fetchVars, restVars >>

ClassifyNext == CallIsTutorialLink \/ CallIsDirectVideoLink

ClassifySpec == ClassifyInit /\ [][ClassifyNext]_vars

\* ------------------------------------- exportAnime and bulkExportAnime

\* The series branch of the two export functions, from
\* let globalEpNumber = 1  to the end of the loop over details.seasons.
\* getEpisodes is taken by its result, the episodes it lists for the season
\* (it returns a list, empty on failure); getEpisodeLink runs as above.

Drivers == { "exportAnime", "bulkExportAnime" }

\* the fallback id of getEpisodes: slug-SxE
EpisodeIdOf(s, e) == "naruto-" \o ToString(s) \o "x" \o ToString(e)

\* allEpisodes.filter(ep => ep.season === season.seasonNumber) with k
\* episodes listed for season s
EpisodesOf(s, k) ==
    [ e \in 1..k |-> [ episodeId |-> EpisodeIdOf(s, e), number |-> e,
                       season |-> s ] ]

\* the statements the season loop writes
SeasonStmt(s) == [ stmt |-> "INSERT INTO seasons", season |-> s ]

PurgeStmt(s) == [ stmt |-> "DELETE FROM episodes", season |-> s ]

EpisodeStmt(ep, order) ==
    [ stmt |-> "INSERT IGNORE INTO episodes", season |-> ep.season,
      number |-> ep.number, ep_order |-> order ]

\* variant: ep_order starts at 1 in every season
EpisodeStmtsPerSeason(valid, n) ==
    [ i \in 1..Len(valid) |-> EpisodeStmt(valid[i], i) ]

\* the INSERTs of the loop over validEpisodes, the first with ep_order n
RECURSIVE EpisodeStmts(_, _)
EpisodeStmts(valid, n) ==
    IF valid = << >> THEN << >>
    ELSE << EpisodeStmt(Head(valid), n) >> \o EpisodeStmts(Tail(valid), n + 1)

\* link.includes(text) for the texts the drivers look for: the tokens that
\* hold '/epi/', 'cdn', 'embed' and 'video' (none does)
TokensWithEpi == { "/epi/" }

TokensWithCdn == { "cdn.", "as-cdn21.top" }

TokensWithEmbed == { "/embed" }

TokensWithVideo == { }

HasText(link, tokens) == \E i \in 1..Len(link) : link[i] \in tokens

\* the three tests that make a driver skip an episode
Skipped(link) ==
    \/ link = NULL
    \/ TutorialLink(link)
    \/ /\ HasText(link, TokensWithEpi)
       /\ ~HasText(link, TokensWithCdn)
       /\ ~HasText(link, TokensWithEmbed)
       /\ ~HasText(link, TokensWithVideo)

\* an iframe that points back at an episode page
UrlEpiRel == << "/epi/", "naruto-1x2", "/" >>

\* episode pages and embed pages served to the exports
ExportEpisodePages ==
    { [ ok |-> TRUE, dataSrc |-> << >>, dl2 |-> << >>, iframes |-> f ] :
        f \in { << >>, << UrlDirectB >>, << UrlEpiRel >>,
                << UrlGenericA, UrlEmbedRel >>,
                << UrlEmbedRel, UrlRedirect2 >> } }

ExportEmbedPages ==
    { [ ok |-> TRUE, links |-> l ] :
        l \in { << >>, << [ tag |-> "iframe", url |-> UrlDirectRel ] >> } }

ExportInit ==
    /\ driver \in Drivers
    /\ expPc = "start"
    /\ seasonCount \in 0..MaxSeasons
    /\ seasonIdx = 0
    /\ episodes = << >>
    /\ epIdx = 0
    /\ validEpisodes = << >>
    /\ globalEpNumber = 1
    /\ stdout = << >>
    /\ linkCalls = << >>
    /\ LinkInit
    /\ ClassifyIdle
    /\ PairIdle
    /\ FetchIdle
    /\ RestIdle

\* the top of iteration s of  for (const season of details.seasons), out
\* being what has been written so far: up to  await importer.getEpisodes
StartSeason(s, out) ==
    IF s > seasonCount
    THEN /\ expPc' = "done"
         /\ stdout' = out
         /\ UNCHANGED seasonIdx
    ELSE /\ expPc' = "awaitEpisodes"
         /\ seasonIdx' = s
         /\ stdout' = IF driver = "bulkExportAnime"
                      THEN Append(out, SeasonStmt(s))
                      ELSE out

\* let globalEpNumber = 1  and the first iteration's start
ExpBegin ==
    /\ expPc = "start"
    /\ globalEpNumber' = 1
    /\ StartSeason(1, stdout)
    /\ UNCHANGED << driver, seasonCount, episodes, epIdx, validEpisodes,
                    linkCalls >>
    /\ UNCHANGED << linkVars, classifyVars, pairVars, fetchVars, restVars >>

\* getEpisodes returns, k episodes being of this season: an empty season is
\* skipped, otherwise the loop over the episodes starts with its sleep
ExpEpisodesReturned ==
    /\ expPc = "awaitEpisodes"
    /\ \E k \in 0..MaxEpisodes :
           /\ episodes' = EpisodesOf(seasonIdx, k)
           /\ IF k = 0
              THEN /\ StartSeason(seasonIdx + 1, stdout)
                   /\ UNCHANGED << epIdx, validEpisodes >>
              ELSE /\ expPc' = "sleep"
                   /\ epIdx' = 1
                   /\ validEpisodes' = << >>
                   /\ stdout' = IF driver = "bulkExportAnime"
                                THEN Append(stdout, PurgeStmt(seasonIdx))
                                ELSE stdout
                   /\ UNCHANGED seasonIdx
    /\ UNCHANGED << driver, seasonCount, globalEpNumber, linkCalls >>
    /\ UNCHANGED << linkVars, classifyVars, pairVars, fetchVars, restVars >>

\* variant: the driver does not wait for the link of one episode before it
\* asks for the next
ExpSleepDoneNotWaiting ==
    /\ expPc \in { "sleep", "awaitLink" }
    /\ pc \in { "idle", "awaitOuter" }
    /\ \E id \in { episodes[IF expPc = "sleep" THEN epIdx
                            ELSE IF epIdx < Len(episodes) THEN epIdx + 1
                            ELSE epIdx].episodeId } :
           /\ pc' = "awaitOuter"
           /\ episodeId' = id
           /\ inflight' = WatchUrl(id)
           /\ outstanding' = outstanding + 1
           /\ fetchLog' = << WatchUrl(id) >>
           /\ linkCalls' = Append(linkCalls, [ event |-> "call", id |-> id ])
    /\ expPc' = "awaitLink"
    /\ UNCHANGED << html, serverSources, idx, fallbackInternalLink, embedHtml,
                    result, outcome >>
    /\ UNCHANGED << driver, seasonCount, seasonIdx, episodes, epIdx,
                    validEpisodes, globalEpNumber, stdout >>
    /\ UNCHANGED << classifyVars, pairVars, fetchVars, restVars >>

\* the sleep before an episode is over: getEpisodeLink(ep.episodeId) is
\* called and runs up to its first await
ExpSleepDone ==
    /\ expPc = "sleep"
    /\ \E id \in { episodes[epIdx].episodeId } :
           /\ CallFrame(id)
           /\ linkCalls' = Append(linkCalls, [ event |-> "call", id |-> id ])
    /\ expPc' = "awaitLink"
    /\ UNCHANGED << driver, seasonCount, seasonIdx, episodes, epIdx,
                    validEpisodes, globalEpNumber, stdout >>
    /\ UNCHANGED << classifyVars, pairVars, fetchVars, restVars >>

\* the frame of a getEpisodeLink call that has returned is gone
LinkFrameDropped ==
    /\ pc' = "idle"
    /\ episodeId' = ""
    /\ inflight' = NULL
    /\ fetchLog' = << >>
    /\ html' = Rejected
    /\ serverSources' = << >>
    /\ idx' = 0
    /\ fallbackInternalLink' = NULL
    /\ embedHtml' = EmbedRejected
    /\ result' = NULL
    /\ outcome' = "pending"
    /\ UNCHANGED outstanding

\* exportAnime after  link = await importer.getEpisodeLink(...): the
\* episode is skipped or kept; after the last one the season is written,
\* unless it has no valid episode
ExportAnimeLinkReturned(link) ==
    \E ep \in { episodes[epIdx] } :
    \E valid \in { IF Skipped(link) THEN validEpisodes
                   ELSE Append(validEpisodes, ep) } :
        /\ validEpisodes' = valid
        /\ IF epIdx < Len(episodes)
           THEN /\ expPc' = "sleep"
                /\ epIdx' = epIdx + 1
                /\ UNCHANGED << seasonIdx, globalEpNumber, stdout >>
           ELSE /\ UNCHANGED epIdx
                /\ IF valid = << >>
                   THEN /\ StartSeason(seasonIdx + 1, stdout)
                        /\ UNCHANGED globalEpNumber
                   ELSE /\ StartSeason(
                               seasonIdx + 1,
                               stdout \o << SeasonStmt(seasonIdx),
                                            PurgeStmt(seasonIdx) >>
                                      \o EpisodeStmts(valid, globalEpNumber))
                        /\ globalEpNumber' = globalEpNumber + Len(valid)

\* bulkExportAnime after  link = await importer.getEpisodeLink(...): the
\* episode is skipped or its INSERT written
BulkExportLinkReturned(link) ==
    \E ep \in { episodes[epIdx] } :
    \E out \in { IF Skipped(link) THEN stdout
                 ELSE Append(stdout, EpisodeStmt(ep, globalEpNumber)) } :
        /\ globalEpNumber' = IF Skipped(link) THEN globalEpNumber
                             ELSE globalEpNumber + 1
        /\ UNCHANGED validEpisodes
        /\ IF epIdx < Len(episodes)
           THEN /\ expPc' = "sleep"
                /\ epIdx' = epIdx + 1
                /\ stdout' = out
                /\ UNCHANGED seasonIdx
           ELSE /\ UNCHANGED epIdx
                /\ StartSeason(seasonIdx + 1, out)

\* getEpisodeLink returns to the driver that awaits it
ExpLinkReturned ==
    /\ expPc = "awaitLink"
    /\ pc = "done"
    /\ linkCalls' = Append(linkCalls,
                           [ event |-> "return", id |-> episodeId ])
    /\ IF driver = "exportAnime"
       THEN ExportAnimeLinkReturned(result)
       ELSE BulkExportLinkReturned(result)
    /\ LinkFrameDropped
    /\ UNCHANGED << driver, seasonCount, episodes >>
    /\ UNCHANGED << classifyVars, pairVars, fetchVars, restVars >>

ExportNext ==
    \/ ExpBegin
    \/ ExpEpisodesReturned
    \/ ExpSleepDone
    \/ OuterFetchRejected
    \/ OuterFetchResolvedWith(ExportEpisodePages)
    \/ NestedFetchResolvedWith(ExportEmbedPages)
    \/ NestedFetchRejected
    \/ ExpLinkReturned

ExportSpec == ExportInit /\ [][ExportNext]_vars

\* ------------------------------------------- two calls of getEpisodeLink

\* Two calls whose awaits are resumed in any order.  Everything a call
\* keeps between two awaits is a local of its own invocation: watchUrl,
\* html, serverSources, the three regex objects (a regex literal is a new
\* object each time the function body runs, and extractAllMatches runs to
\* its end, lastIndex back at 0, without an await), fallbackInternalLink,
\* and sourceUrl, embedHtml in _resolveSource.

Calls == 1..2

\* internal-indirection URLs of the pages served to the two calls
PairInternalUrls == { UrlEmbed1, UrlRedirect2 }

PairEpisodePages ==
    { Rejected }
    \cup { [ ok |-> TRUE, dataSrc |-> << >>, dl2 |-> << >>, iframes |-> f ] :
             f \in { << UrlDirectB >>, << UrlGenericA, UrlEmbedRel >>,
                     << UrlEmbedRel, UrlRedirect2 >> } }

PairEmbedPages ==
    { EmbedRejected }
    \cup { [ ok |-> TRUE, links |-> l ] :
             l \in { << [ tag |-> "iframe", url |-> UrlDirectRel ] >>,
                     << [ tag |-> "script", url |-> UrlPixeldraw ] >> } }

IdleFrame ==
    [ pc |-> "idle", episodeId |-> "", inflight |-> NULL,
      serverSources |-> << >>, idx |-> 0, fallbackInternalLink |-> NULL,
      result |-> NULL, sawOther |-> FALSE ]

PairInit ==
    /\ frames = [ c \in Calls |-> IdleFrame ]
    /\ served \in [ Calls -> [ page : PairEpisodePages,
                               embeds : [ PairInternalUrls -> PairEmbedPages ] ] ]
    /\ LinkInit
    /\ ClassifyIdle
    /\ ExportIdle
    /\ FetchIdle
    /\ RestIdle

\* some other call is waiting for a fetch
OtherInFlight(c) ==
    \E d \in Calls \ { c } : frames[d].pc \in { "awaitOuter", "awaitNested" }

\* the locals of call c when its loop has reached position r
FrameAt(c, sources, r) ==
    [ pc |-> r.pc, episodeId |-> frames[c].episodeId,
      inflight |-> IF r.pc = "awaitNested" THEN sources[r.idx] ELSE NULL,
      serverSources |-> sources, idx |-> r.idx,
      fallbackInternalLink |-> r.fallback, result |-> r.result,
      sawOther |-> frames[c].sawOther \/ OtherInFlight(c) ]

\* variant: fallbackInternalLink is one variable outside the function
FramesAfterSharedFallback(c, sources, r) ==
    [ d \in Calls |->
        IF d = c THEN FrameAt(c, sources, r)
        ELSE [ frames[d] EXCEPT !.fallbackInternalLink = r.fallback ] ]

\* a step of call c changes the locals of call c
FramesAfter(c, sources, r) ==
    [ frames EXCEPT ![c] = FrameAt(c, sources, r) ]

\* getEpisodeLink is called for call c and runs up to its first await
PairCall(c) ==
    /\ frames[c].pc = "idle"
    /\ frames' = [ frames EXCEPT ![c] =
                     [ IdleFrame EXCEPT
                         !.pc = "awaitOuter",
                         !.episodeId = EpisodeIdOf(1, c),
                         !.inflight = WatchUrl(EpisodeIdOf(1, c)),
                         !.sawOther = OtherInFlight(c) ] ]
    /\ UNCHANGED << served, linkVars, classifyVars, exportVars, fetchVars, restVars >>

\* the fetch of call c's episode page settles
PairOuterFetchSettled(c) ==
    /\ frames[c].pc = "awaitOuter"
    /\ \E page \in { served[c].page } :
           IF ~page.ok
           THEN frames' = FramesAfter(c, << >>, Returned(0, NULL, NULL, "catch"))
           ELSE \E sources \in { ExtractServerSources(page) } :
                    frames' = FramesAfter(c, sources,
                                          ResolveLoop(sources, 1, NULL))
    /\ UNCHANGED << served, linkVars, classifyVars, exportVars, fetchVars, restVars >>

\* the fetch of _resolveSource in call c settles
PairNestedFetchSettled(c) ==
    /\ frames[c].pc = "awaitNested"
    /\ \E f \in { frames[c] } :
       \E resolved \in { ResolveSource(f.inflight,
                                       served[c].embeds[f.inflight]) } :
           frames' = FramesAfter(c, f.serverSources,
                                 AfterResolve(f.serverSources, f.idx,
                                              f.fallbackInternalLink, resolved))
    /\ UNCHANGED << served, linkVars, classifyVars, exportVars, fetchVars, restVars >>

PairNext ==
    \E c \in Calls :
        \/ PairCall(c)
        \/ PairOuterFetchSettled(c)
        \/ PairNestedFetchSettled(c)

PairSpec == PairInit /\ [][PairNext]_vars

\* ------------------------------------------------------------ fetchHTML

\* One call fetchHTML(url, retries) and the calls line 44 makes for
\* redirects.  A call keeps, for each value n of the closure attemptFetch(n),
\* how many HTTP requests are open, how many were destroyed by the timeout
\* handler and have their 'error' event still to come, and how many
\* setTimeout callbacks are pending; issued counts its HTTP requests.

Remaining == 0..MaxRetries

NoAttempts == [ n \in Remaining |-> 0 ]

\* a call with r retries that has just run attemptFetch(r)
NewCall(parent, r) ==
    [ parent |-> parent, promise |-> "pending",
      open |-> [ NoAttempts EXCEPT ![r] = 1 ],
      destroyed |-> NoAttempts, timers |-> NoAttempts, issued |-> 1 ]

\* HTTP requests issued by all calls
TotalIssued(cs) ==
    LET RECURSIVE Sum(_)
        Sum(k) == IF k = 0 THEN 0 ELSE cs[k].issued + Sum(k - 1)
    IN  Sum(Len(cs))

\* resolve or reject of call c is called: a promise settles once, and the
\* then/catch of line 44 hands the outcome on to the caller's promise
RECURSIVE Settle(_, _, _)
Settle(cs, c, how) ==
    IF c = 0 \/ cs[c].promise # "pending" THEN cs
    ELSE Settle([ cs EXCEPT ![c].promise = how ], cs[c].parent, how)

\* the handlers' common end: with retries left attemptFetch(n - 1) is
\* scheduled, without the call rejects
RetryOrReject(cs, c, n) ==
    IF n > 0 THEN [ cs EXCEPT ![c].timers[n - 1] = @ + 1 ]
    ELSE Settle(cs, c, "rejected")

\* the statuses a server answers with
OkStatuses == { 200, 304 }
ErrorStatuses == { 404, 429, 500, 503 }

\* variant: every status of 400 or more is retried while retries are left
StatusHandledAlwaysRetrying(cs, c, n, status) ==
    IF n > 0 THEN [ cs EXCEPT ![c].timers[n - 1] = @ + 1 ]
    ELSE Settle(cs, c, "rejected")

\* the branch of a response with status 400 or more: 429 and 500 and more
\* are retried while retries are left, every other status rejects
StatusHandled(cs, c, n, status) ==
    IF n > 0 /\ (status = 429 \/ status >= 500)
    THEN [ cs EXCEPT ![c].timers[n - 1] = @ + 1 ]
    ELSE Settle(cs, c, "rejected")

\* variant: the timeout handler leaves the retry to the 'error' handler
\* that req.destroy() sets off
TimeoutHandledOnce(cs, c, n) == cs

\* the 'timeout' handler after req.destroy()
TimeoutHandled(cs, c, n) == RetryOrReject(cs, c, n)

\* fetchHTML(url, retries) is called
FetchCall ==
    /\ calls = << >>
    /\ \E r \in Remaining :
           /\ retries' = r
           /\ calls' = << NewCall(0, r) >>
           /\ event' = [ kind |-> "call", c |-> 1, n |-> r, status |-> 0 ]
    /\ UNCHANGED << linkVars, classifyVars, exportVars, pairVars, restVars >>

\* a response below 300, or a 3xx without Location, has come in whole
ResponseEnd(c, n, status) ==
    /\ calls[c].open[n] > 0
    /\ calls' = Settle([ calls EXCEPT ![c].open[n] = @ - 1 ], c, "resolved")
    /\ event' = [ kind |-> "response", c |-> c, n |-> n, status |-> status ]
    /\ UNCHANGED << retries, linkVars, classifyVars, exportVars, pairVars,
                    restVars >>

\* a 3xx response with Location: fetchHTML is called for the new URL with
\* the caller's retries
ResponseRedirect(c, n) ==
    /\ calls[c].open[n] > 0
    /\ Len(calls) <= MaxRedirects
    /\ TotalIssued(calls) < MaxRequests
    /\ calls' = Append([ calls EXCEPT ![c].open[n] = @ - 1 ], NewCall(c, retries))
    /\ event' = [ kind |-> "response", c |-> c, n |-> n, status |-> 302 ]
    /\ UNCHANGED << retries, linkVars, classifyVars, exportVars, pairVars,
                    restVars >>

\* a response with status 400 or more
ResponseError(c, n, status) ==
    /\ calls[c].open[n] > 0
    /\ calls' = StatusHandled([ calls EXCEPT ![c].open[n] = @ - 1 ], c, n,
                              status)
    /\ event' = [ kind |-> "response", c |-> c, n |-> n, status |-> status ]
    /\ UNCHANGED << retries, linkVars, classifyVars, exportVars, pairVars,
                    restVars >>

\* the request fails: its 'error' event
RequestError(c, n) ==
    /\ calls[c].open[n] > 0
    /\ calls' = RetryOrReject([ calls EXCEPT ![c].open[n] = @ - 1 ], c, n)
    /\ event' = [ kind |-> "error", c |-> c, n |-> n, status |-> 0 ]
    /\ UNCHANGED << retries, linkVars, classifyVars, exportVars, pairVars,
                    restVars >>

\* the socket is idle for 30 s: the 'timeout' handler destroys the request
RequestTimeout(c, n) ==
    /\ calls[c].open[n] > 0
    /\ calls' = TimeoutHandled([ calls EXCEPT ![c].open[n] = @ - 1,
                                             ![c].destroyed[n] = @ + 1 ],
                               c, n)
    /\ event' = [ kind |-> "timeout", c |-> c, n |-> n, status |-> 0 ]
    /\ UNCHANGED << retries, linkVars, classifyVars, exportVars, pairVars,
                    restVars >>

\* the 'error' event of a request destroyed before its response
DestroyedRequestError(c, n) ==
    /\ calls[c].destroyed[n] > 0
    /\ calls' = RetryOrReject([ calls EXCEPT ![c].destroyed[n] = @ - 1 ], c, n)
    /\ event' = [ kind |-> "error", c |-> c, n |-> n, status |-> 0 ]
    /\ UNCHANGED << retries, linkVars, classifyVars, exportVars, pairVars,
                    restVars >>

\* a setTimeout callback runs attemptFetch(n)
AttemptFetch(c, n) ==
    /\ calls[c].timers[n] > 0
    /\ calls' = [ calls EXCEPT ![c].timers[n] = @ - 1,
                               ![c].open[n] = @ + 1,
                               ![c].issued = @ + 1 ]
    /\ event' = [ kind |-> "attempt", c |-> c, n |-> n, status |-> 0 ]
    /\ UNCHANGED << retries, linkVars, classifyVars, exportVars, pairVars,
                    restVars >>

\* the same, within the requests followed
TimerFires(c, n) ==
    /\ TotalIssued(calls) < MaxRequests
    /\ AttemptFetch(c, n)

FetchNext ==
    \/ FetchCall
    \/ \E c \in 1..Len(calls), n \in Remaining, status \in OkStatuses :
           ResponseEnd(c, n, status)
    \/ \E c \in 1..Len(calls), n \in Remaining : ResponseRedirect(c, n)
    \/ \E c \in 1..Len(calls), n \in Remaining, status \in ErrorStatuses :
           ResponseError(c, n, status)
    \/ \E c \in 1..Len(calls), n \in Remaining : RequestError(c, n)
    \/ \E c \in 1..Len(calls), n \in Remaining : RequestTimeout(c, n)
    \/ \E c \in 1..Len(calls), n \in Remaining : DestroyedRequestError(c, n)
    \/ \E c \in 1..Len(calls), n \in Remaining : TimerFires(c, n)

FetchSpec == Init /\ [][FetchNext]_vars

\* ------------------------------------------- fetchHTML, redirects without end

\* A server may answer every request with a redirect.  To follow such a run
\* in finitely many states, a call that has nothing left to do but hand on
\* the outcome of the calls it made for its redirects is dropped, and those
\* calls hand their outcome to its caller directly.

\* call has no open request, no 'error' event to come and no pending timer
Inert(call) ==
    \A n \in Remaining :
        call.open[n] = 0 /\ call.destroyed[n] = 0 /\ call.timers[n] = 0

\* the calls without call k, whose redirects' calls now settle k's caller
Without(cs, k) ==
    [ i \in 1..(Len(cs) - 1) |->
        LET call == cs[IF i < k THEN i ELSE i + 1]
        IN  [ call EXCEPT !.parent = IF @ = k THEN cs[k].parent
                                     ELSE IF @ > k THEN @ - 1 ELSE @ ] ]

\* every pending call but the caller's that only waits for its redirects'
\* calls is dropped
RECURSIVE Compact(_)
Compact(cs) ==
    LET waiting == { k \in 2..Len(cs) :
                       cs[k].promise = "pending" /\ Inert(cs[k]) }
    IN  IF waiting = { } THEN cs
        ELSE Compact(Without(cs, CHOOSE k \in waiting :
                                     \A j \in waiting : k <= j))

\* a 3xx response with Location, however many came before
ResponseRedirectAgain(c, n) ==
    /\ calls[c].open[n] > 0
    /\ \E after \in { Compact(Append([ calls EXCEPT ![c].open[n] = @ - 1 ],
                                     NewCall(c, retries))) } :
           /\ Len(after) <= MaxRedirects + 1
           /\ calls' = after
    /\ event' = [ kind |-> "response", c |-> c, n |-> n, status |-> 302 ]
    /\ UNCHANGED << retries, linkVars, classifyVars, exportVars, pairVars,
                    restVars >>

\* an open request yields a complete response, an error or a timeout
RequestSettles(c, n) ==
    /\ c <= Len(calls)
    /\ \/ \E status \in OkStatuses : ResponseEnd(c, n, status)
       \/ ResponseRedirectAgain(c, n)
       \/ \E status \in ErrorStatuses : ResponseError(c, n, status)
       \/ RequestError(c, n)
       \/ RequestTimeout(c, n)

\* the 'error' event of a destroyed request is delivered
DestroyedRequestSettles(c, n) ==
    /\ c <= Len(calls)
    /\ DestroyedRequestError(c, n)

\* a pending timer runs out
TimerRunsOut(c, n) ==
    /\ c <= Len(calls)
    /\ AttemptFetch(c, n)

FetchLiveNext ==
    \/ FetchCall
    \/ \E c \in 1..(MaxRedirects + 1), n \in Remaining : RequestSettles(c, n)
    \/ \E c \in 1..(MaxRedirects + 1), n \in Remaining :
           DestroyedRequestSettles(c, n)
    \/ \E c \in 1..(MaxRedirects + 1), n \in Remaining : TimerRunsOut(c, n)

\* every request is answered, fails or times out, every destroyed request
\* emits its 'error', every timer runs out
FetchLiveSpec ==
    /\ Init
    /\ [][FetchLiveNext]_vars
    /\ \A c \in 1..(MaxRedirects + 1), n \in Remaining :
           /\ WF_vars(RequestSettles(c, n))
           /\ WF_vars(DestroyedRequestSettles(c, n))
           /\ WF_vars(TimerRunsOut(c, n))

\* ---------------------------------------------------------- getAllAnime

\* the categories of lines 784-790, in their order
AllCategories ==
    << [ name |-> "Home", paginated |-> FALSE ],
       [ name |-> "Anime", paginated |-> TRUE ],
       [ name |-> "Hindi Dub", paginated |-> TRUE ],
       [ name |-> "Tamil", paginated |-> TRUE ],
       [ name |-> "Action", paginated |-> TRUE ] >>

\* the first of them, which the for loop is followed through
Categories ==
    SubSeq(AllCategories, 1,
           IF MaxCategories < Len(AllCategories) THEN MaxCategories
           ELSE Len(AllCategories))

\* the last page of a paginated category (line 821)
PageLimit == 50

\* the old layout of getAllAnime's caller: everything but its own variables
notAllAnimeVars ==
    << linkVars, classifyVars, exportVars, pairVars, fetchVars, searchVars,
       episodesVars, detailsVars, bulkVars >>

Max(S) == CHOOSE x \in S : \A y \in S : y <= x

\* Slugs are numbered in the order getAllAnime first sees them.  A page can
\* show the slug seen first, the slug seen last and one that is new.
SlugChoices(seen) ==
    IF seen = { } THEN { 1 } ELSE { Min(seen), Max(seen), Max(seen) + 1 }

\* what _parseAnimeList can return for a page: no slug twice (lines 259,
\* 284, 313); an entry stands for its slug and for where it was found
PageResults(seen, cat) ==
    { [ i \in 1..Len(q) |-> [ slug |-> q[i], cat |-> cat ] ] :
        q \in { r \in SeqsUpTo(SlugChoices(seen), MaxPageLen) :
                  \A i, j \in 1..Len(r) : r[i] = r[j] => i = j } }

\* lines 807-815: the entries of results with a slug not seen are pushed
RECURSIVE AddNew(_, _, _)
AddNew(results, seen, list) ==
    IF results = << >> THEN [ seen |-> seen, list |-> list ]
    ELSE IF Head(results).slug \in seen
         THEN AddNew(Tail(results), seen, list)
         ELSE AddNew(Tail(results), seen \cup { Head(results).slug },
                     Append(list, Head(results)))

\* variant: the loop goes on after the page of a category without pages
HasMoreIgnoringPaginated(newInPage, cat, pg) ==
    ~ (newInPage = 0 \/ pg >= PageLimit)

\* line 821, negated: the while loop goes on
HasMore(newInPage, cat, pg) ==
    ~ (newInPage = 0 \/ ~ Categories[cat].paginated \/ pg >= PageLimit)

\* the for loop takes the next category and fetches its first page, or
\* getAllAnime returns
EndCategory ==
    IF catIdx < Len(Categories)
    THEN /\ catIdx' = catIdx + 1
         /\ pageNo' = 1
         /\ gaPc' = "fetch"
         /\ fetched' = Append(fetched, 1)
    ELSE /\ gaPc' = "done"
         /\ UNCHANGED << catIdx, pageNo, fetched >>

\* getAllAnime is called and awaits the first page of the first category
GetAllAnimeCall ==
    /\ gaPc = "idle"
    /\ gaPc' = "fetch"
    /\ catIdx' = 1
    /\ pageNo' = 1
    /\ fetched' = << 1 >>
    /\ UNCHANGED << seenSlugs, allAnime, settled, notAllAnimeVars >>

\* fetchHTML rejects: the catch of line 827
PageRejected ==
    /\ gaPc = "fetch"
    /\ settled' = [ cat |-> catIdx, kind |-> "failed" ]
    /\ EndCategory
    /\ UNCHANGED << seenSlugs, allAnime, notAllAnimeVars >>

\* fetchHTML resolves and _parseAnimeList returns results
PageResolved(results) ==
    /\ gaPc = "fetch"
    /\ IF results = << >>
       THEN /\ settled' = [ cat |-> catIdx, kind |-> "empty" ]
            /\ EndCategory
            /\ UNCHANGED << seenSlugs, allAnime >>
       ELSE \E added \in { AddNew(results, seenSlugs, allAnime) } :
            \E newInPage \in { Len(added.list) - Len(allAnime) } :
                /\ seenSlugs' = added.seen
                /\ allAnime' = added.list
                /\ settled' = [ cat |-> catIdx,
                                kind |-> IF \A i \in 1..Len(results) :
                                              results[i].slug \in seenSlugs
                                         THEN "stale" ELSE "new" ]
                /\ IF HasMore(newInPage, catIdx, pageNo)
                   THEN /\ pageNo' = pageNo + 1
                        /\ gaPc' = "sleep"
                        /\ UNCHANGED << catIdx, fetched >>
                   ELSE EndCategory
    /\ UNCHANGED notAllAnimeVars

\* sleep(300) is over: the next page is fetched
PageSleepDone ==
    /\ gaPc = "sleep"
    /\ gaPc' = "fetch"
    /\ fetched' = [ fetched EXCEPT ![catIdx] = @ + 1 ]
    /\ UNCHANGED << catIdx, pageNo, seenSlugs, allAnime, settled,
                    notAllAnimeVars >>

AllAnimeNext ==
    \/ GetAllAnimeCall
    \/ PageRejected
    \/ \E results \in PageResults(seenSlugs, catIdx) :
           PageResolved(results)
    \/ PageSleepDone

AllAnimeSpec == Init /\ [][AllAnimeNext]_vars

\* ------------------------------------- runAutoScrape: fuzzy title search

\* a title is the sequence of its characters: letters and blanks
TitleChars == { "a", "b", " " }

Titles == SeqsUpTo(TitleChars, MaxTitleLen)

notSearchVars ==
    << linkVars, classifyVars, exportVars, pairVars, fetchVars, allAnimeVars,
       episodesVars, detailsVars, bulkVars >>

\* String.prototype.trim
RECURSIVE TrimStart(_)
TrimStart(t) == IF t # << >> /\ Head(t) = " " THEN TrimStart(Tail(t)) ELSE t

RECURSIVE TrimEnd(_)
TrimEnd(t) ==
    IF t # << >> /\ t[Len(t)] = " " THEN TrimEnd(SubSeq(t, 1, Len(t) - 1))
    ELSE t

Trim(t) == TrimEnd(TrimStart(t))

\* currentTitle.slice(0, -1).trim()
Shorter(t) == Trim(SubSeq(t, 1, Len(t) - 1))

\* what importer.search returns: a list of matches, maybe empty
SearchResults == { << >>, << "match1" >>, << "match1", "match2" >> }

\* variant: the loop goes on down to the empty title
KeepSearchingToEmpty(t) == Len(t) > 0

\* the condition of the while loop
KeepSearching(t) == Len(t) > 2

\* the while condition is tested: importer.search is called or the loop ends
Loop(t) ==
    IF KeepSearching(t)
    THEN /\ fsPc' = "search"
         /\ queries' = Append(queries, t)
    ELSE /\ fsPc' = "done"
         /\ UNCHANGED queries

FuzzyInit ==
    /\ fsPc = "start"
    /\ originalTitle \in Titles
    /\ currentTitle = originalTitle
    /\ bestMatch = "null"
    /\ queries = << >>
    /\ answers = << >>
    /\ LinkInit
    /\ ClassifyIdle
    /\ ExportIdle
    /\ PairIdle
    /\ FetchIdle
    /\ AllAnimeIdle
    /\ EpisodesIdle
    /\ DetailsIdle
    /\ BulkIdle

\* the loop is entered
FuzzyBegin ==
    /\ fsPc = "start"
    /\ Loop(currentTitle)
    /\ UNCHANGED << originalTitle, currentTitle, bestMatch, answers,
                    notSearchVars >>

\* importer.search returns
SearchReturned(results) ==
    /\ fsPc = "search"
    /\ answers' = Append(answers, results)
    /\ IF Len(results) > 0
       THEN /\ bestMatch' = results[1]
            /\ fsPc' = "done"
            /\ UNCHANGED << currentTitle, queries >>
       ELSE /\ currentTitle' = Shorter(currentTitle)
            /\ Loop(currentTitle')
            /\ UNCHANGED bestMatch
    /\ UNCHANGED << originalTitle, notSearchVars >>

FuzzyNext ==
    \/ FuzzyBegin
    \/ \E results \in SearchResults : SearchReturned(results)

FuzzySpec == FuzzyInit /\ [][FuzzyNext]_vars

\* ----------------------------------------------------------- getEpisodes

\* A series page is taken by its S<n>-E<m> markers, in the order of the
\* text.  A marker is in a list item with a link to the episode ("li"), in
\* a list item without one ("bare": <span>S1-E1</span>, which the loose
\* pattern does not match, '<' following the digits), or in plain text
\* followed by a title ("loose").
MarkerKinds == { "li", "bare", "loose" }

EpisodeMarkers ==
    [ kind : MarkerKinds, season : { 1, 2 }, number : { 1, 2 } ]

EpisodePageMarkers == SeqsUpTo(EpisodeMarkers, MaxMarkers)

notEpisodesVars ==
    << linkVars, classifyVars, exportVars, pairVars, fetchVars, allAnimeVars,
       searchVars, detailsVars, bulkVars >>

\* lines 453-479: the list items with a marker and a link, the first of
\* every season and number; the episode id is taken from the link
RECURSIVE StructuredEpisodes(_, _, _)
StructuredEpisodes(markers, i, found) ==
    IF i > Len(markers) THEN found
    ELSE LET m == markers[i]
         IN  IF /\ m.kind = "li"
                /\ ~ \E k \in 1..Len(found) :
                       found[k].season = m.season /\ found[k].number = m.number
             THEN StructuredEpisodes(
                      markers, i + 1,
                      Append(found, [ episodeId |-> "epi-" \o ToString(i),
                                      number |-> m.number,
                                      season |-> m.season ]))
             ELSE StructuredEpisodes(markers, i + 1, found)

\* lines 482-498: every loose marker gives an episode
RECURSIVE LooseEpisodes(_)
LooseEpisodes(markers) ==
    IF markers = << >> THEN << >>
    ELSE IF Head(markers).kind = "loose"
         THEN << [ episodeId |-> EpisodeIdOf(Head(markers).season,
                                             Head(markers).number),
                   number |-> Head(markers).number,
                   season |-> Head(markers).season ] >>
              \o LooseEpisodes(Tail(markers))
         ELSE LooseEpisodes(Tail(markers))

\* the comparator of lines 500-503 says a goes before b
Before(a, b) ==
    IF a.season # b.season THEN a.season < b.season ELSE a.number < b.number

\* Array.prototype.sort with that comparator: stable
RECURSIVE InsertEpisode(_, _)
InsertEpisode(sorted, ep) ==
    IF sorted = << >> THEN << ep >>
    ELSE IF Before(ep, Head(sorted)) THEN << ep >> \o sorted
    ELSE << Head(sorted) >> \o InsertEpisode(Tail(sorted), ep)

RECURSIVE SortEpisodes(_)
SortEpisodes(eps) ==
    IF eps = << >> THEN << >>
    ELSE InsertEpisode(SortEpisodes(SubSeq(eps, 1, Len(eps) - 1)),
                       eps[Len(eps)])

\* the try block of getEpisodes after the fetch
EpisodesOfPage(markers) ==
    LET structured == StructuredEpisodes(markers, 1, << >>)
    IN  SortEpisodes(IF structured = << >> THEN LooseEpisodes(markers)
                     ELSE structured)

\* getEpisodes was called and awaits the page
EpisodesInit ==
    /\ gePc = "fetch"
    /\ gePage \in EpisodePageMarkers
    /\ geEpisodes = << >>
    /\ LinkInit
    /\ ClassifyIdle
    /\ ExportIdle
    /\ PairIdle
    /\ FetchIdle
    /\ AllAnimeIdle
    /\ SearchIdle
    /\ DetailsIdle
    /\ BulkIdle

\* fetchHTML resolves with the page
EpisodesFetchResolved ==
    /\ gePc = "fetch"
    /\ gePc' = "done"
    /\ geEpisodes' = EpisodesOfPage(gePage)
    /\ UNCHANGED << gePage, notEpisodesVars >>

\* fetchHTML rejects: the catch returns the empty list
EpisodesFetchRejected ==
    /\ gePc = "fetch"
    /\ gePc' = "failed"
    /\ geEpisodes' = << >>
    /\ UNCHANGED << gePage, notEpisodesVars >>

EpisodesNext ==
    \/ EpisodesFetchResolved
    \/ EpisodesFetchRejected

EpisodesSpec == EpisodesInit /\ [][EpisodesNext]_vars

\* ------------------------------------------------------- getAnimeDetails

\* the page is taken by the season numbers of its S<n>-E<m> markers, in
\* the order of the text
MarkerSeasons == { 0, 1, 2, 3 }

DetailsPageMarkers == SeqsUpTo(MarkerSeasons, MaxMarkers)

notDetailsVars ==
    << linkVars, classifyVars, exportVars, pairVars, fetchVars, allAnimeVars,
       searchVars, episodesVars, bulkVars >>

Season(n) == [ seasonNumber |-> n, title |-> "Season " \o ToString(n) ]

\* lines 407-416: the positive season numbers, each once, in text order
RECURSIVE SeasonsFound(_, _)
SeasonsFound(seasons, list) ==
    IF seasons = << >> THEN list
    ELSE SeasonsFound(
             Tail(seasons),
             IF /\ Head(seasons) > 0
                /\ ~ \E k \in 1..Len(list) :
                       list[k].seasonNumber = Head(seasons)
             THEN Append(list, Season(Head(seasons)))
             ELSE list)

\* seasonList.sort((a, b) => a.seasonNumber - b.seasonNumber)
RECURSIVE InsertSeason(_, _)
InsertSeason(sorted, s) ==
    IF sorted = << >> THEN << s >>
    ELSE IF s.seasonNumber < Head(sorted).seasonNumber THEN << s >> \o sorted
    ELSE << Head(sorted) >> \o InsertSeason(Tail(sorted), s)

RECURSIVE SortSeasons(_)
SortSeasons(list) ==
    IF list = << >> THEN << >>
    ELSE InsertSeason(SortSeasons(SubSeq(list, 1, Len(list) - 1)),
                      list[Len(list)])

\* variant: an empty season list is returned as it is
SeasonListNoDefault(seasons) == SortSeasons(SeasonsFound(seasons, << >>))

\* lines 403-422
SeasonList(seasons) ==
    LET seasonList == SortSeasons(SeasonsFound(seasons, << >>))
    IN  IF seasonList = << >> THEN << Season(1) >> ELSE seasonList

\* getAnimeDetails was called and awaits the page
DetailsInit ==
    /\ adPc = "fetch"
    /\ adPage \in DetailsPageMarkers
    /\ adDetails = [ seasons |-> << >>, totalSeasons |-> 0 ]
    /\ LinkInit
    /\ ClassifyIdle
    /\ ExportIdle
    /\ PairIdle
    /\ FetchIdle
    /\ AllAnimeIdle
    /\ SearchIdle
    /\ EpisodesIdle
    /\ BulkIdle

\* fetchHTML resolves with the page: the details are returned
DetailsFetchResolved ==
    /\ adPc = "fetch"
    /\ adPc' = "done"
    /\ \E seasonList \in { SeasonList(adPage) } :
           adDetails' = [ seasons |-> seasonList,
                          totalSeasons |-> Len(seasonList) ]
    /\ UNCHANGED << adPage, notDetailsVars >>

\* fetchHTML rejects: getAnimeDetails throws
DetailsFetchRejected ==
    /\ adPc = "fetch"
    /\ adPc' = "threw"
    /\ UNCHANGED << adPage, adDetails, notDetailsVars >>

DetailsNext ==
    \/ DetailsFetchResolved
    \/ DetailsFetchRejected

DetailsSpec == DetailsInit /\ [][DetailsNext]_vars

\* ------------------------------------------ bulkExportAnime: the anime loop

\* bulkExportAnime from the return of getAllAnime to its end.  The calls it
\* awaits are taken by what they hand back, or by an exception; the link
\* resolution and the statements of a season are those of the sections
\* above, and stdout is followed here by its header, the anime blocks begun
\* and its footer.

notBulkVars ==
    << linkVars, classifyVars, exportVars, pairVars, fetchVars, allAnimeVars,
       searchVars, episodesVars, detailsVars >>

Header == << "SET FOREIGN_KEY_CHECKS = 0" >>

Footer == << "SET FOREIGN_KEY_CHECKS = 1", "-- BULK EXPORT COMPLETE --" >>

AnimeBlock(i) == "-- === anime " \o ToString(i) \o " ==="

\* what getAnimeDetails returns: no title, a movie, or a series with its
\* seasons (at least one)
DetailsReturned ==
    { [ title |-> FALSE, type |-> "series", seasons |-> 1 ] }
    \cup [ title : { TRUE }, type : { "movie", "series" },
           seasons : 1..MaxSeasons ]

\* what getEpisodeLink returns, by the test that meets it
LinkKinds == { "null", "tutorial", "invalid", "valid" }

\* the for loop takes anime i, or is over and the footer is written
NextAnime(i, out) ==
    IF i > toExport
    THEN /\ bkPc' = "done"
         /\ bkOut' = out \o Footer
         /\ UNCHANGED << animeIdx, animeCount >>
    ELSE /\ bkPc' = "details"
         /\ animeIdx' = i
         /\ animeCount' = animeCount + 1
         /\ bkOut' = out

\* the season loop takes season s and awaits getEpisodes, or is over and
\* sleep(1000) is awaited
NextSeason(s) ==
    IF s > bkSeasons
    THEN /\ bkPc' = "animeSleep"
         /\ UNCHANGED bkSeasonIdx
    ELSE /\ bkPc' = "seasonEpisodes"
         /\ bkSeasonIdx' = s

\* variant: no try around the body of the loop
ThrowUncaught ==
    /\ bkPc' = "threw"
    /\ UNCHANGED << animeIdx, animeCount, bkOut >>

\* the catch of line 1119, and the next iteration
ThrowCaught == NextAnime(animeIdx + 1, bkOut)

\* getAllAnime has returned n anime: the header is written and the loop
\* starts
BulkInit ==
    /\ bkPc = "start"
    /\ toExport \in 0..MaxAnime
    /\ animeIdx = 0
    /\ animeCount = 0
    /\ totalEpisodes = 0
    /\ bkType = "none"
    /\ bkSeasons = 0
    /\ bkSeasonIdx = 0
    /\ bkEpisodes = 0
    /\ bkEpIdx = 0
    /\ bkOut = << >>
    /\ thrown = { }
    /\ LinkInit
    /\ ClassifyIdle
    /\ ExportIdle
    /\ PairIdle
    /\ FetchIdle
    /\ AllAnimeIdle
    /\ SearchIdle
    /\ EpisodesIdle
    /\ DetailsIdle

BulkBegin ==
    /\ bkPc = "start"
    /\ NextAnime(1, Header)
    /\ UNCHANGED << toExport, totalEpisodes, bkType, bkSeasons, bkSeasonIdx,
                    bkEpisodes, bkEpIdx, thrown, notBulkVars >>

\* getAnimeDetails returns
BulkDetailsReturned(details) ==
    /\ bkPc = "details"
    /\ IF ~ details.title
       THEN /\ NextAnime(animeIdx + 1, bkOut)
            /\ UNCHANGED << bkType, bkSeasons, bkSeasonIdx >>
       ELSE /\ bkOut' = Append(bkOut, AnimeBlock(animeIdx))
            /\ bkType' = details.type
            /\ UNCHANGED << animeIdx, animeCount >>
            /\ IF details.type = "movie"
               THEN /\ bkPc' = "movieEpisodes"
                    /\ UNCHANGED << bkSeasons, bkSeasonIdx >>
               ELSE /\ bkSeasons' = details.seasons
                    /\ bkPc' = "seasonEpisodes"
                    /\ bkSeasonIdx' = 1
    /\ UNCHANGED << toExport, totalEpisodes, bkEpisodes, bkEpIdx, thrown,
                    notBulkVars >>

\* getEpisodes returns k episodes (of the season, for a series)
BulkEpisodesReturned(k) ==
    /\ bkPc \in { "movieEpisodes", "seasonEpisodes" }
    /\ bkEpisodes' = k
    /\ IF bkPc = "movieEpisodes"
       THEN /\ IF k = 0
               THEN NextAnime(animeIdx + 1, bkOut)
               ELSE /\ bkPc' = "movieLink"
                    /\ UNCHANGED << animeIdx, animeCount, bkOut >>
            /\ UNCHANGED << bkSeasonIdx, bkEpIdx >>
       ELSE /\ IF k = 0
               THEN /\ NextSeason(bkSeasonIdx + 1)
                    /\ UNCHANGED bkEpIdx
               ELSE /\ bkPc' = "episodeSleep"
                    /\ bkEpIdx' = 1
                    /\ UNCHANGED bkSeasonIdx
            /\ UNCHANGED << animeIdx, animeCount, bkOut >>
    /\ UNCHANGED << toExport, totalEpisodes, bkType, bkSeasons, thrown,
                    notBulkVars >>

\* sleep(300) before an episode, or sleep(1000) after an anime, is over
BulkSleepDone ==
    /\ bkPc \in { "episodeSleep", "animeSleep" }
    /\ IF bkPc = "episodeSleep"
       THEN /\ bkPc' = "episodeLink"
            /\ UNCHANGED << animeIdx, animeCount, bkOut >>
       ELSE NextAnime(animeIdx + 1, bkOut)
    /\ UNCHANGED << toExport, totalEpisodes, bkType, bkSeasons, bkSeasonIdx,
                    bkEpisodes, bkEpIdx, thrown, notBulkVars >>

\* getEpisodeLink returns
BulkLinkReturned(link) ==
    /\ bkPc \in { "movieLink", "episodeLink" }
    /\ IF bkPc = "movieLink"
       THEN /\ IF link \in { "null", "tutorial" }
               THEN /\ NextAnime(animeIdx + 1, bkOut)
                    /\ UNCHANGED totalEpisodes
               ELSE /\ totalEpisodes' = totalEpisodes + 1
                    /\ bkPc' = "animeSleep"
                    /\ UNCHANGED << animeIdx, animeCount, bkOut >>
            /\ UNCHANGED << bkSeasonIdx, bkEpIdx >>
       ELSE /\ totalEpisodes' = IF link = "valid" THEN totalEpisodes + 1
                                ELSE totalEpisodes
            /\ IF bkEpIdx < bkEpisodes
               THEN /\ bkPc' = "episodeSleep"
                    /\ bkEpIdx' = bkEpIdx + 1
                    /\ UNCHANGED bkSeasonIdx
               ELSE /\ NextSeason(bkSeasonIdx + 1)
                    /\ UNCHANGED bkEpIdx
            /\ UNCHANGED << animeIdx, animeCount, bkOut >>
    /\ UNCHANGED << toExport, bkType, bkSeasons, bkEpisodes, thrown,
                    notBulkVars >>

\* the awaited getAnimeDetails, getEpisodes or getEpisodeLink throws
BulkAwaitThrew ==
    /\ bkPc \in { "details", "movieEpisodes", "movieLink", "seasonEpisodes",
                  "episodeLink" }
    /\ thrown' = thrown \cup { animeIdx }
    /\ ThrowCaught
    /\ UNCHANGED << toExport, totalEpisodes, bkType, bkSeasons, bkSeasonIdx,
                    bkEpisodes, bkEpIdx, notBulkVars >>

BulkNext ==
    \/ BulkBegin
    \/ \E details \in DetailsReturned : BulkDetailsReturned(details)
    \/ \E k \in 0..MaxEpisodes : BulkEpisodesReturned(k)
    \/ BulkSleepDone
    \/ \E link \in LinkKinds : BulkLinkReturned(link)
    \/ BulkAwaitThrew

BulkSpec == BulkInit /\ [][BulkNext]_vars

\* ----------------------------------------------------------------- claims

Done == pc = "done"

OuterResolved == Done /\ html.ok

\* the URL of the latest nested fetchHTML
LastFetched == fetchLog[Len(fetchLog)]

\* strings the iframe loop of _resolveSource sees on an embed page
NestedIframes(embed, sourceUrl) ==
    { FullSrc(src, sourceUrl) : src \in Range(IframeSrcs(embed.links)) }

\* positions of the embed page's iframes that are direct and no placeholder
GoodIframes(links, sourceUrl) ==
    { i \in 1..Len(links) :
        /\ links[i].tag = "iframe"
        /\ LET u == FullSrc(links[i].url, sourceUrl)
           IN  ~TutorialLink(u) /\ DirectVideoLink(u) }

\* C1: whatever statement returns it (top-level direct, nested pass,
\* fallback), the value getEpisodeLink returns is never a string that
\* _isTutorialLink classifies as placeholder.
C1_NeverReturnsPlaceholder ==
    Done => ~TutorialLink(result)

C1_Witness ==
    /\ Done
    /\ outcome = "resolved"
    /\ \E s \in Range(serverSources) : TutorialLink(s)
    /\ \E u \in NestedIframes(embedHtml, LastFetched) : TutorialLink(u)

C3_FirstFallbackWins ==
    /\ []( ( /\ OuterResolved
             /\ serverSources # << >>
             /\ \A s \in Range(serverSources) :
                    /\ ~TutorialLink(s)
                    /\ ~DirectVideoLink(s)
                    /\ ~IsInternal(s) )
           => result = serverSources[1] )
    /\ [][ fallbackInternalLink # NULL
           => fallbackInternalLink' = fallbackInternalLink ]_vars

C3_Witness ==
    /\ Done
    /\ serverSources = << UrlGenericA, UrlGenericB >>
    /\ result = UrlGenericA

\* C4: resolution is one level deep: apart from the episode page, fetchHTML
\* is only ever called for top-level candidates, never for a link found on
\* an embed page; so a direct link the call returns is a top-level
\* candidate or stands on the embed page of a top-level candidate.
C4_DepthOne ==
    /\ \A i \in 2..Len(fetchLog) : fetchLog[i] \in Range(serverSources)
    /\ inflight # NULL
           => inflight = WatchUrl(episodeId) \/ inflight \in Range(serverSources)
    /\ ( Done /\ DirectVideoLink(result) )
           => \/ result \in Range(serverSources)
              \/ /\ Len(fetchLog) > 1
                 /\ result \in NestedIframes(embedHtml, LastFetched)
                               \cup { ScriptMatchOf(l.url) :
                                        l \in Range(embedHtml.links) }

\* the embed page holds only a link to a further internal page
C4_Witness ==
    /\ Done
    /\ Len(fetchLog) = 2
    /\ embedHtml.ok
    /\ embedHtml.links = << [ tag |-> "iframe", url |-> UrlRedirect2 ] >>
    /\ UrlRedirect2 \notin Range(serverSources)
    /\ UrlRedirect2 \notin Range(fetchLog)
    /\ result = NULL

\* C5 as stated: every top-level direct candidate with no placeholder at or
\* before its position is what the call returns.
C5_AnyDirectBeforePlaceholderReturned ==
    OuterResolved =>
        \A i \in 1..Len(serverSources) :
            ( /\ DirectVideoLink(serverSources[i])
              /\ \A j \in 1..i : ~TutorialLink(serverSources[j]) )
            => result = serverSources[i]

\* C5 amended: the first top-level direct candidate with no placeholder at
\* or before its position is returned unchanged, unless the nested pass of
\* an earlier internal-indirection candidate has already returned a link.
C5_FirstDirectReturnedVerbatim ==
    OuterResolved =>
        \A i \in 1..Len(serverSources) :
            ( /\ DirectVideoLink(serverSources[i])
              /\ \A j \in 1..i : ~TutorialLink(serverSources[j])
              /\ \A j \in 1..(i - 1) : ~DirectVideoLink(serverSources[j])
              /\ outcome # "resolved" )
            => result = serverSources[i] /\ outcome = "direct"

C5_Witness ==
    /\ Done
    /\ outcome = "direct"
    /\ Len(serverSources) >= 2
    /\ result = serverSources[2]
    /\ fallbackInternalLink = serverSources[1]

\* an episode page none of whose matches becomes a candidate
NoCandidates(page) ==
    /\ page.iframes = << >>
    /\ \A p \in Range(page.dataSrc) \cup Range(page.dl2) :
           ~StartsWithHttp(FromBase64(p))

\* C6: an episode page that yields no candidate from data-src, dl2.php or
\* iframes makes the call return null without any nested fetch.
C6_NoCandidatesGivesNull ==
    ( OuterResolved /\ NoCandidates(html) )
        => /\ result = NULL
           /\ serverSources = << >>
           /\ fetchLog = << WatchUrl(episodeId) >>

C6_Witness ==
    /\ OuterResolved
    /\ html.dataSrc = << Malformed >>
    /\ NoCandidates(html)

\* C7: no exception leaves getEpisodeLink: the call is either waiting for a
\* fetch it has issued or has ended in one of its return statements, the
\* one in the catch block returning null.
C7_NeverRaises ==
    /\ outcome # "threw"
    /\ pc \in { "awaitOuter", "awaitNested" } => inflight # NULL
    /\ Done => /\ outcome \in { "direct", "resolved", "fallback", "catch" }
               /\ inflight = NULL
               /\ outcome = "catch" => result = NULL
               /\ outcome # "catch" => html.ok

C7_Witness ==
    /\ Done
    /\ ~html.ok
    /\ outcome = "catch"

\* C8: when the fetch of the episode page rejects, the call returns null,
\* having extracted no candidate and issued no nested fetch.
C8_OuterFailureGivesNull ==
    ( Done /\ ~html.ok )
        => /\ result = NULL
           /\ serverSources = << >>
           /\ fallbackInternalLink = NULL
           /\ fetchLog = << WatchUrl(episodeId) >>

C8_Witness ==
    /\ Done
    /\ ~html.ok
    /\ result = NULL
    /\ Len(fetchLog) = 1

\* candidates after position i that are no placeholder
LaterCandidates(i) ==
    { j \in (i + 1)..Len(serverSources) : ~TutorialLink(serverSources[j]) }

\* C9: when the nested fetch for candidate idx rejects, the candidate
\* yields nothing (no return from it, no fallback from it, the recorded
\* fallback kept) and the loop goes on with the next candidate: a direct one
\* is returned, an external one becomes the fallback if none was recorded,
\* an internal one is fetched, and with none left the fallback is returned.
C9_NestedFailureSkipsCandidate ==
    [][ ( pc = "awaitNested" /\ ~embedHtml'.ok )
        => /\ outcome' \in { "pending", "direct", "fallback" }
           /\ fallbackInternalLink # NULL
                  => fallbackInternalLink' = fallbackInternalLink
           /\ \/ fallbackInternalLink' = fallbackInternalLink
              \/ \E j \in LaterCandidates(idx) :
                     fallbackInternalLink' = serverSources[j]
           /\ IF LaterCandidates(idx) = {}
              THEN pc' = "done" /\ result' = fallbackInternalLink
              ELSE LET next == serverSources[Min(LaterCandidates(idx))]
                   IN  IF DirectVideoLink(next)
                       THEN pc' = "done" /\ result' = next
                       ELSE IF IsInternal(next)
                       THEN pc' = "awaitNested" /\ inflight' = next
                       ELSE fallbackInternalLink = NULL
                                => fallbackInternalLink' = next ]_vars

C9_Witness ==
    /\ Done
    /\ Len(fetchLog) = 2
    /\ ~embedHtml.ok
    /\ Len(serverSources) >= 2
    /\ fetchLog[2] = serverSources[1]
    /\ outcome = "direct"
    /\ result = serverSources[2]

\* strings that both classifiers accept
Both(u) == TutorialLink(u) /\ DirectVideoLink(u)

\* C10: a string that is placeholder and direct at once is skipped by the
\* top-level loop and by the iframe loop of _resolveSource, and is never
\* the value returned; a list of nothing but such candidates gives null.
C10_ExclusionWins ==
    Done =>
        /\ \A u \in Range(serverSources) : Both(u) => result # u
        /\ Len(fetchLog) > 1 =>
               \A u \in NestedIframes(embedHtml, LastFetched) :
                   Both(u) => result # u
        /\ ( html.ok /\ \A u \in Range(serverSources) : Both(u) )
               => result = NULL /\ Len(fetchLog) = 1

C10_Witness ==
    /\ Done
    /\ serverSources # << >>
    /\ serverSources[1] = UrlBoth
    /\ Len(fetchLog) > 1
    /\ embedHtml.links # << >>
    /\ Both(FullSrc(embedHtml.links[1].url, LastFetched))
    /\ outcome = "resolved"
    /\ result = << "https:" >> \o UrlDirectRel

\* what the nested pass finds on an embed page, in the order the pass looks
\* at it: the iframe sources, then the links matched in the rest of the text
NestedCandidates(embed, sourceUrl) ==
    LET srcs == IframeSrcs(embed.links)
    IN  [ i \in 1..Len(srcs) |-> FullSrc(srcs[i], sourceUrl) ]
        \o ScriptMatches(embed.links)

\* positions of the nested candidates that are no placeholder
Acceptable(c) == { i \in 1..Len(c) : ~TutorialLink(c[i]) }

\* C11: when the nested fetch resolves with a page whose candidates hold no
\* direct link but at least one non-placeholder, the call does not return
\* from that candidate, and the first non-placeholder nested candidate
\* becomes the fallback if none was recorded (so that it is the result when
\* no direct link follows); a fallback recorded before is kept.
C11_NestedCandidateBecomesFallback ==
    [][ ( /\ pc = "awaitNested"
          /\ embedHtml'.ok
          /\ Acceptable(NestedCandidates(embedHtml', inflight)) # {}
          /\ \A i \in Acceptable(NestedCandidates(embedHtml', inflight)) :
                 ~DirectVideoLink(NestedCandidates(embedHtml', inflight)[i]) )
        => /\ outcome' # "resolved"
           /\ fallbackInternalLink' =
                  IF fallbackInternalLink = NULL
                  THEN NestedCandidates(embedHtml', inflight)[
                           Min(Acceptable(NestedCandidates(embedHtml', inflight)))]
                  ELSE fallbackInternalLink ]_vars

\* the part of C11 the code does implement: a link of the script text that
\* _resolveSource hands back and that is not direct is the result
C11_ScriptLinkIsResult ==
    /\ Done
    /\ outcome = "fallback"
    /\ Len(fetchLog) = 2
    /\ embedHtml.links = << [ tag |-> "script", url |-> UrlPixeldraw ] >>
    /\ result = UrlPixeldraw

\* the candidates whose embed page a full pass of the loop fetches
InternalCandidates ==
    SelectSeq(serverSources,
              LAMBDA s : ~TutorialLink(s) /\ ~DirectVideoLink(s) /\ IsInternal(s))

Decoded(matches) ==
    SelectSeq([ i \in 1..Len(matches) |-> FromBase64(matches[i]) ],
              StartsWithHttp)

\* the URLs a list of raw iframe sources stands for, in page order
Absolute(matches) == [ i \in 1..Len(matches) |-> AbsoluteSrc(matches[i]) ]

\* first position of c in seq, 0 if it does not occur
FirstPos(c, seq) ==
    IF c \in Range(seq) THEN Min({ i \in 1..Len(seq) : seq[i] = c }) ELSE 0

\* the extraction method that discovers c first on the page:
\* 1 data-src, 2 dl2.php, 3 raw iframe
MethodOf(c, page) ==
    IF c \in Range(Decoded(page.dataSrc)) THEN 1
    ELSE IF c \in Range(Decoded(page.dl2)) THEN 2
    ELSE 3

\* where on the page the method that discovers c first meets it first
PageOrder(c, page) ==
    CASE MethodOf(c, page) = 1 -> FirstPos(c, Decoded(page.dataSrc))
      [] MethodOf(c, page) = 2 -> FirstPos(c, Decoded(page.dl2))
      [] OTHER -> FirstPos(c, Absolute(page.iframes))

\* C13: in the candidate list every candidate first discovered from a
\* data-src attribute stands before every one first discovered from a
\* dl2.php parameter, and these before every one first discovered as a raw
\* iframe src; candidates of one method stand in page order.
C13_OrderedByExtractionMethod ==
    html.ok =>
        \A i, j \in 1..Len(serverSources) :
            i < j =>
                LET a == serverSources[i]
                    b == serverSources[j]
                IN  /\ MethodOf(a, html) <= MethodOf(b, html)
                    /\ MethodOf(a, html) = MethodOf(b, html)
                           => PageOrder(a, html) < PageOrder(b, html)

\* one candidate of each method, the page listing them in any order
C13_Witness ==
    /\ html.ok
    /\ Len(html.dataSrc) = 1 /\ Len(html.dl2) = 1 /\ Len(html.iframes) = 1
    /\ Len(serverSources) = 3
    /\ MethodOf(serverSources[1], html) = 1
    /\ MethodOf(serverSources[2], html) = 2
    /\ MethodOf(serverSources[3], html) = 3

\* every URL discovered on the page, in the order of discovery
Discoveries(page) ==
    Decoded(page.dataSrc) \o Decoded(page.dl2) \o Absolute(page.iframes)

\* C14: the candidate list holds no URL twice: it holds every discovered URL
\* once, at the place of its first discovery.
C14_NoDuplicateCandidates ==
    html.ok =>
        /\ \A i, j \in 1..Len(serverSources) :
               i # j => serverSources[i] # serverSources[j]
        /\ Range(serverSources) = Range(Discoveries(html))
        /\ \A i, j \in 1..Len(serverSources) :
               i < j => FirstPos(serverSources[i], Discoveries(html))
                            < FirstPos(serverSources[j], Discoveries(html))

\* a URL met as a data-src payload and again, twice, as a relative iframe
C14_Witness ==
    /\ html.ok
    /\ html.dataSrc = << Base64(UrlEmbed1) >>
    /\ html.iframes = << UrlEmbedRel, UrlEmbedRel >>
    /\ serverSources = << UrlEmbed1 >>

\* payloads that decode to no usable URL
Undecodable(matches) ==
    { i \in 1..Len(matches) : ~StartsWithHttp(FromBase64(matches[i])) }

\* the payloads of a list that do decode, in page order
Decodable(matches) ==
    SelectSeq(matches, LAMBDA p : StartsWithHttp(FromBase64(p)))

\* C15: a payload that decodes to no usable URL leaves no candidate and
\* raises nothing: the candidate list is the one of the page without that
\* payload, and the call goes on to resolve it (it does not end in the
\* catch block).
C15_UndecodableDropped ==
    ( html.ok /\ Undecodable(html.dataSrc) \cup Undecodable(html.dl2) # {} )
        => /\ \A p \in Range(html.dataSrc) \cup Range(html.dl2) :
                  ~StartsWithHttp(FromBase64(p))
                      => FromBase64(p) \notin Range(serverSources)
           /\ serverSources =
                  ExtractServerSources(
                      [ html EXCEPT !.dataSrc = Decodable(html.dataSrc),
                                    !.dl2 = Decodable(html.dl2) ])
           /\ Len(serverSources) >=
                  Cardinality(Range(Decoded(html.dataSrc)))
           /\ outcome \notin { "catch", "threw" }
           /\ pc \in { "awaitNested", "done" }

\* a malformed payload standing before a good one and a raw iframe
C15_Witness ==
    /\ Done
    /\ html.dataSrc = << Malformed, Base64(UrlEmbed1) >>
    /\ html.iframes = << UrlDirectB >>
    /\ serverSources = << UrlEmbed1, UrlDirectB >>
    /\ Len(fetchLog) = 2
    /\ result = UrlDirectB

\* the URL holds an entry of the deny-list, letter case aside
OnDenyList(u) ==
    \E p \in tutorialPatterns : Includes(ToLowerCase(u), ToLowerCase(p))

\* the URL is a YouTube embed, as the code tells one
GenericEmbed(u) ==
    \/ Includes(u, << "youtube.com", "/embed", "/" >>)
    \/ Includes(u, << "youtu.be", "/" >>)

\* the URL holds an entry of the allow-list, letter case aside
OnAllowList(u) ==
    \E p \in providers : Includes(ToLowerCase(u), ToLowerCase(p))

\* C16 as stated: _isTutorialLink is true exactly for a deny-listed URL or
\* a YouTube embed that is not allow-listed.
C16_PlaceholderUnlessAllowListed ==
    clsTutorial # << >>
        => ( clsTutorial[1]
                 <=> \/ OnDenyList(clsUrl)
                     \/ GenericEmbed(clsUrl) /\ ~OnAllowList(clsUrl) )

\* C16 amended: _isTutorialLink is true exactly for a deny-listed URL or a
\* YouTube embed (the text youtube.com/embed/ or youtu.be/ in that letter
\* case), allow-listed or not; the answer of _isDirectVideoLink on the same
\* URL does not change it.
C16_PlaceholderExactly ==
    /\ clsTutorial # << >>
           => ( clsTutorial[1] <=> OnDenyList(clsUrl) \/ GenericEmbed(clsUrl) )
    /\ ( /\ clsTutorial # << >>
         /\ clsDirect = << TRUE >>
         /\ GenericEmbed(clsUrl) )
           => clsTutorial = << TRUE >>

\* a YouTube embed off the deny-list that the allow-list accepts
C16_Witness ==
    /\ clsUrl = << "youtube.com", "/embed", "/", "dood" >>
    /\ ~OnDenyList(clsUrl)
    /\ clsDirect = << TRUE >>
    /\ clsTutorial = << TRUE >>

\* C17: a getEpisodeLink call has at most one fetchHTML promise
\* outstanding at any time and asks for the embed pages in the order of the
\* candidate list; exportAnime and bulkExportAnime call getEpisodeLink for
\* an episode only when the call for the episode before has returned.
C17_OneFetchAtATime ==
    /\ outstanding \in { 0, 1 }
    /\ outstanding = 1 <=> pc \in { "awaitOuter", "awaitNested" }
    /\ \A i, j \in 2..Len(fetchLog) :
           i < j => /\ 0 < FirstPos(fetchLog[i], serverSources)
                    /\ FirstPos(fetchLog[i], serverSources)
                           < FirstPos(fetchLog[j], serverSources)
    /\ \A k \in 1..Len(linkCalls) :
           IF k % 2 = 1
           THEN linkCalls[k].event = "call"
           ELSE /\ linkCalls[k].event = "return"
                /\ linkCalls[k].id = linkCalls[k - 1].id
    /\ Len(linkCalls) % 2 = 1 <=> pc # "idle"

\* the second episode's call, made after the first one's return, waits for
\* the second of its two embed pages
C17_Witness ==
    /\ driver = "exportAnime"
    /\ Len(linkCalls) = 3
    /\ linkCalls[2].event = "return"
    /\ linkCalls[3].id # linkCalls[1].id
    /\ pc = "awaitNested"
    /\ Len(fetchLog) = 3
    /\ outstanding = 1

\* the loop of a call run on its own from position r to its return
RECURSIVE RunFrom(_, _, _)
RunFrom(sources, r, embeds) ==
    IF r.pc = "done" THEN r.result
    ELSE RunFrom(sources,
                 AfterResolve(sources, r.idx, r.fallback,
                              ResolveSource(sources[r.idx],
                                            embeds[sources[r.idx]])),
                 embeds)

\* what getEpisodeLink returns when it runs alone against answers a
RunAlone(a) ==
    IF ~a.page.ok THEN NULL
    ELSE RunFrom(ExtractServerSources(a.page),
                 ResolveLoop(ExtractServerSources(a.page), 1, NULL),
                 a.embeds)

\* C18: two calls resumed at their awaits in any order share no state: each
\* returns what it returns when it runs alone against the same answers of
\* the page fetcher, and no step of one call changes a local of the other.
C18_CallsIndependent ==
    /\ []( \A c \in DOMAIN frames :
               frames[c].pc = "done"
                   => frames[c].result = RunAlone(served[c]) )
    /\ [][ \A c \in DOMAIN frames :
               frames'[c] # frames[c]
                   => \A d \in DOMAIN frames \ { c } : frames'[d] = frames[d] ]_vars

\* both calls have returned, each resumed while the other was waiting, one
\* with the fallback it recorded and the other with nothing
C18_Witness ==
    /\ frames # << >>
    /\ \A c \in Calls : frames[c].pc = "done" /\ frames[c].sawOther
    /\ frames[1].result = UrlGenericA
    /\ frames[1].fallbackInternalLink = UrlGenericA
    /\ frames[2].serverSources = << UrlEmbed1, UrlRedirect2 >>
    /\ frames[2].result = NULL

\* the candidates up to position n that make the loop call _resolveSource
ReachedInternal(n) ==
    SelectSeq(SubSeq(serverSources, 1, n),
              LAMBDA s : ~TutorialLink(s) /\ ~DirectVideoLink(s) /\ IsInternal(s))

\* C19: the call asks the page fetcher once for the episode page and once
\* for each internal-indirection candidate its loop has reached, for that
\* candidate's URL and for nothing else: at most one call more than there
\* are internal-indirection candidates, and none for a candidate behind the
\* one at which the call returned.
C19_OneFetchPerReachedCandidate ==
    pc # "idle" =>
        /\ fetchLog[1] = WatchUrl(episodeId)
        /\ Tail(fetchLog) =
               ReachedInternal(IF idx <= Len(serverSources) THEN idx
                               ELSE Len(serverSources))
        /\ Len(fetchLog) <=
               1 + Cardinality({ i \in 1..Len(serverSources) :
                                   IsInternal(serverSources[i]) })
        /\ Done => outstanding = 0 /\ inflight = NULL

\* a direct link found on the first candidate's embed page, a second
\* internal-indirection candidate left alone
C19_Witness ==
    /\ Done
    /\ outcome = "resolved"
    /\ idx = 1
    /\ Len(serverSources) >= 2
    /\ IsInternal(serverSources[2])
    /\ ~TutorialLink(serverSources[2])
    /\ fetchLog = << WatchUrl(episodeId), serverSources[1] >>

\* C20: as long as no response was a redirect and the promise has not
\* settled, fetchHTML(url, retries) has issued at most retries + 1 HTTP
\* requests, whatever errors, timeouts and 429/5xx responses have occurred.
C20_AtMostRetriesPlusOneRequests ==
    ( Len(calls) = 1 /\ calls[1].promise = "pending" )
        => calls[1].issued <= retries + 1

\* a step in which the response callback saw a status of 400 or more
ErrorResponseStep == event'.kind = "response" /\ event'.status >= 400

\* the promise of call c after reject was called
RejectCalled(c) ==
    IF calls[c].promise = "pending" THEN "rejected" ELSE calls[c].promise

\* C21 as stated: a response with status >= 400 rejects only when the
\* remaining retry count is 0; while retries remain it schedules another
\* attempt with the count decremented by one.
C21_RejectsOnlyWhenExhausted ==
    [][ ErrorResponseStep =>
            LET c == event'.c
                n == event'.n
            IN  /\ ( calls[c].promise = "pending"
                     /\ calls'[c].promise = "rejected" ) => n = 0
                /\ n > 0 => calls'[c].timers[n - 1]
                                = calls[c].timers[n - 1] + 1 ]_vars

\* C21 amended: a response with status 429 or >= 500 rejects only when the
\* remaining retry count is 0, and while retries remain schedules exactly one
\* attempt with the count decremented by one and leaves the promise alone; a
\* response with any other status >= 400 rejects at once and schedules
\* nothing, whatever retries remain.
C21_RetryableStatusRetriedUntilExhausted ==
    [][ ErrorResponseStep =>
            LET c == event'.c
                n == event'.n
                status == event'.status
            IN  IF n > 0 /\ (status = 429 \/ status >= 500)
                THEN /\ calls'[c].timers
                            = [ calls[c].timers EXCEPT ![n - 1] = @ + 1 ]
                     /\ calls'[c].promise = calls[c].promise
                ELSE /\ calls'[c].timers = calls[c].timers
                     /\ calls'[c].promise = RejectCalled(c) ]_vars

\* a 404 answered the first request although retries were left: rejected
C21_Witness ==
    /\ event.kind = "response"
    /\ event.status = 404
    /\ event.n > 0
    /\ calls[event.c].promise = "rejected"
    /\ calls[event.c].timers = NoAttempts

\* attempts of a call that are scheduled (a pending setTimeout) or in flight
\* (an open request)
Live(call) ==
    LET RECURSIVE Sum(_)
        Sum(n) == IF n < 0 THEN 0
                  ELSE call.open[n] + call.timers[n] + Sum(n - 1)
    IN  Sum(MaxRetries)

\* C22: a failed attempt has at most one successor, also when the timeout
\* handler destroys the request and its 'error' handler runs: a fetchHTML
\* call never has two attempts scheduled or in flight at the same time.
C22_AtMostOneAttemptLive ==
    \A c \in 1..Len(calls) : Live(calls[c]) <= 1

\* C23: every fetchHTML call eventually settles, given that every request
\* yields a complete response, an error or a timeout, also when the server
\* answers with redirects.
C23_EveryCallSettles ==
    (Len(calls) >= 1) ~> (Len(calls) >= 1 /\ calls[1].promise # "pending")

\* the for loop is past category c
CategoryOver(c) == gaPc = "done" \/ (gaPc # "idle" /\ catIdx > c)

\* C24: getAllAnime terminates: a category has at most 50 page fetches,
\* exactly one if it is not paginated; its loop is over after the first
\* page that fails to fetch, parses to an empty list or shows no slug not
\* seen before; the list never holds two entries with the same slug.
C24_BoundedPagesNoDuplicateSlug ==
    /\ \A c \in 1..Len(fetched) :
           /\ fetched[c] <= PageLimit
           /\ ~ Categories[c].paginated => fetched[c] = 1
    /\ CategoryOver(Len(Categories)) => Len(fetched) = Len(Categories)
    /\ settled.kind \in { "failed", "empty", "stale" }
           => CategoryOver(settled.cat)
    /\ \A i, j \in 1..Len(allAnime) :
           allAnime[i].slug = allAnime[j].slug => i = j
    /\ gaPc \in { "idle", "done" } \/ ENABLED AllAnimeNext

\* a category was followed to its 50th page, and a slug met again on a
\* later page was not listed twice
C24_Witness ==
    /\ gaPc = "done"
    /\ \E c \in 1..Len(fetched) : fetched[c] = PageLimit
    /\ Len(allAnime) >= PageLimit
    /\ settled.kind = "stale"

\* t is what is left of u after characters were taken off its end
ShortenedFrom(t, u) ==
    Len(t) < Len(u) /\ \E k \in 0..Len(u) : t = Trim(SubSeq(u, 1, k))

\* C25: the fuzzy search loop terminates: every search is for a title at
\* least one character shorter than the one before, the loop stops at the
\* first non-empty result and otherwise once the title has 2 characters or
\* fewer, so a title of more than 2 characters costs at most its length
\* minus 2 searches (a shorter one none), and no match is reported then.
C25_FuzzySearchBounded ==
    /\ \A i \in 1..Len(queries) :
           /\ Len(queries[i]) > 2
           /\ i = 1 => queries[i] = originalTitle
           /\ i > 1 => ShortenedFrom(queries[i], queries[i - 1])
    /\ Len(queries) <= IF Len(originalTitle) > 2 THEN Len(originalTitle) - 2
                       ELSE 0
    /\ Len(answers) = (IF fsPc = "search" THEN Len(queries) - 1
                       ELSE Len(queries))
    /\ \A i \in 1..(Len(answers) - 1) : answers[i] = << >>
    /\ fsPc = "done" =>
           IF answers # << >> /\ answers[Len(answers)] # << >>
           THEN bestMatch = answers[Len(answers)][1]
           ELSE bestMatch = "null" /\ Len(currentTitle) <= 2
    /\ fsPc = "done" \/ ENABLED FuzzyNext

\* a title for which every prefix was searched in vain
C25_Witness ==
    /\ fsPc = "done"
    /\ bestMatch = "null"
    /\ Len(originalTitle) = MaxTitleLen
    /\ Len(queries) = Len(originalTitle) - 2

\* the place in stdout where the output of the season after the one of
\* statement i begins, or the end of what has been written
SeasonEnd(i) ==
    LET later == { j \in (i + 1)..Len(stdout) :
                     stdout[j].season # stdout[i].season }
    IN  IF later = { } THEN Len(stdout) + 1 ELSE Min(later)

\* C26: in both exports, once the purge statement of a season is written
\* and the next season's output has begun (or the seasons are through), an
\* episode INSERT of the purged season was written after the purge.
C26_PurgedSeasonRefilled ==
    \A i \in 1..Len(stdout) :
        ( /\ stdout[i].stmt = "DELETE FROM episodes"
          /\ SeasonEnd(i) <= Len(stdout) \/ expPc = "done" )
            => \E j \in (i + 1)..(SeasonEnd(i) - 1) :
                   /\ stdout[j].stmt = "INSERT IGNORE INTO episodes"
                   /\ stdout[j].season = stdout[i].season

\* the episode INSERTs written, in their order
IsEpisodeStmt(st) == st.stmt = "INSERT IGNORE INTO episodes"

EpisodeInserts == SelectSeq(stdout, IsEpisodeStmt)

\* C27: the ep_order values of the episode INSERTs of a series are 1, 2,
\* ..., k in the order written, across its seasons; a skipped episode uses
\* up no value.
C27_EpOrderCountsInserts ==
    /\ \A i \in 1..Len(EpisodeInserts) : EpisodeInserts[i].ep_order = i
    /\ driver = "bulkExportAnime" \/ expPc = "done"
           => globalEpNumber = Len(EpisodeInserts) + 1

\* the first episode of season 1 was skipped, the second got ep_order 1,
\* and an episode of season 2 ep_order 2
C27_Witness ==
    /\ expPc = "done"
    /\ Len(EpisodeInserts) >= 2
    /\ EpisodeInserts[1].season = 1
    /\ EpisodeInserts[1].number = 2
    /\ EpisodeInserts[2].season = 2
    /\ EpisodeInserts[2].ep_order = 2

\* C28: the list getEpisodes returns is strictly increasing in (season,
\* number): sorted, and no two entries with the same season and number, on
\* the structured path and on the loose one.
C28_EpisodesStrictlyIncreasing ==
    gePc \in { "done", "failed" } =>
        \A i \in 1..(Len(geEpisodes) - 1) :
            Before(geEpisodes[i], geEpisodes[i + 1])

\* C30: the seasons of the details getAnimeDetails returns are not empty,
\* their numbers positive and strictly increasing, totalSeasons is their
\* count, and a page without a marker of a season above 0 gives exactly
\* season 1.
C30_SeasonsIncreasingNotEmpty ==
    adPc = "done" =>
        LET seasons == adDetails.seasons
        IN  /\ Len(seasons) >= 1
            /\ \A i \in 1..Len(seasons) : seasons[i].seasonNumber > 0
            /\ \A i \in 1..(Len(seasons) - 1) :
                   seasons[i].seasonNumber < seasons[i + 1].seasonNumber
            /\ adDetails.totalSeasons = Len(seasons)
            /\ ( \A k \in 1..Len(adPage) : adPage[k] = 0 )
                   => seasons = << Season(1) >>
            /\ ( \E k \in 1..Len(adPage) : adPage[k] > 0 )
                   => { seasons[i].seasonNumber : i \in 1..Len(seasons) }
                          = { adPage[k] : k \in 1..Len(adPage) } \ { 0 }

\* markers of season 0 only: season 1 is returned
C30_Witness ==
    /\ adPc = "done"
    /\ adPage = << 0, 0 >>
    /\ adDetails.totalSeasons = 1

\* markers out of order and repeated: two seasons are returned
C30_WitnessSorted ==
    /\ adPc = "done"
    /\ adPage = << 3, 1, 3 >>
    /\ adDetails.totalSeasons = 2

\* C29: in bulkExportAnime an exception of getAnimeDetails, getEpisodes or
\* getEpisodeLink ends the export of its anime only: the loop is at a later
\* anime or over, every anime of the list is taken, and the footer is
\* written last, after the header, when the loop is over.
C29_FailureConfinedToAnime ==
    /\ bkPc \in { "idle", "start", "details", "movieEpisodes", "movieLink",
                  "seasonEpisodes", "episodeSleep", "episodeLink",
                  "animeSleep", "done" }
    /\ \A i \in thrown : bkPc = "done" \/ animeIdx > i
    /\ bkPc \notin { "idle", "start" } =>
           SubSeq(bkOut, 1, Len(Header)) = Header
    /\ bkPc = "done" =>
           /\ animeCount = toExport
           /\ SubSeq(bkOut, Len(bkOut) - Len(Footer) + 1, Len(bkOut)) = Footer
    /\ bkPc # "done" =>
           \A k \in 1..Len(bkOut) : bkOut[k] # Footer[1]
    /\ bkPc \in { "idle", "done" } \/ ENABLED BulkNext

\* the export of the first anime threw, the second was exported with an
\* episode, and the footer was written
C29_Witness ==
    /\ bkPc = "done"
    /\ thrown = { 1 }
    /\ toExport = 2
    /\ totalEpisodes >= 1
    /\ \E k \in 1..Len(bkOut) : bkOut[k] = AnimeBlock(2)

====
